---------------------------- MODULE Spec2Model ----------------------------
(***************************************************************************)
(* A model of gallade's dependency core: coordinates, Maven versions and   *)
(* requirements, the registry manager, the local artifact store, the       *)
(* breadth-first resolver, the lockfile merge and the pruner used by       *)
(* removal.                                                                *)
(*                                                                         *)
(* Text is modelled by its tokens.  A coordinate string "ns:name[:ver]" is *)
(* the sequence of its colon-separated fields, a namespace is the sequence *)
(* of its dot-separated segments, a version string is the sequence of its  *)
(* dot-separated numeric fields plus the optional text after the first     *)
(* '-', and a qualifier is a sequence of character codes.  Option<T> is a  *)
(* sequence of length 0 (None) or 1 (Some).                                *)
(***************************************************************************)
EXTENDS Integers, Sequences, FiniteSets, TLC

None == << >>
Some(x) == << x >>
IsSome(o) == Len(o) = 1
Unwrap(o) == o[1]

(* Maps with a growing domain (HashMap). *)
EmptyMap == [k \in {} |-> 0]
Put(f, k, v) == [x \in (DOMAIN f) \cup {k} |-> IF x = k THEN v ELSE f[x]]
Drop(f, k) == [x \in (DOMAIN f) \ {k} |-> f[x]]

(* Every order in which a HashSet / HashMap may hand out the members of S. *)
Orders(S) == { o \in [1..Cardinality(S) -> S] : \A x \in S : \E i \in DOMAIN o : o[i] = x }

(***************************************************************************)
(* version.rs                                                              *)
(***************************************************************************)

(* A version string: the dot-separated fields before the first '-' (a      *)
(* field that is no number is -1, an empty field is EmptyField) and the    *)
(* optional qualifier text after it.                                       *)
VStr(nums, q) == [nums |-> nums, q |-> q]
EmptyField == -2

MavenVersion(major, minor, patch, qualifier) ==
    [major |-> major, minor |-> minor, patch |-> patch, qualifier |-> qualifier]

(* str::parse::<u32> succeeds on a field (every number the model uses is   *)
(* far below u32::MAX; a field that is no number is negative).             *)
IsU32(n) == n >= 0

(* impl FromStr for MavenVersion *)
ParseVersion(s) ==
    LET n == Len(s.nums)
        bad == \E i \in 1..n : ~IsU32(s.nums[i])
    IN  IF n \notin 1..3 THEN [ok |-> FALSE, err |-> "InvalidFormat"]
        ELSE IF bad THEN [ok |-> FALSE, err |-> "InvalidNumber"]
        ELSE [ok |-> TRUE,
              v  |-> MavenVersion(s.nums[1],
                                  IF n >= 2 THEN s.nums[2] ELSE 0,
                                  IF n = 3 THEN s.nums[3] ELSE 0,
                                  s.q)]

NumericOnly(v) == VStr(<<v.major, v.minor, v.patch>>, None)

(* impl Display for MavenVersion *)
VersionToString(v) == VStr(<<v.major, v.minor, v.patch>>, v.qualifier)

(* str::cmp on the qualifier text: lexicographic on character codes. *)
RECURSIVE StrLess(_, _)
StrLess(a, b) ==
    IF b = << >> THEN FALSE
    ELSE IF a = << >> THEN TRUE
    ELSE IF Head(a) # Head(b) THEN Head(a) < Head(b)
    ELSE StrLess(Tail(a), Tail(b))

QualifierOutranks(a, b) ==
    IF a.major # b.major THEN (IF a.major < b.major THEN -1 ELSE 1)
    ELSE IF a.minor # b.minor THEN (IF a.minor < b.minor THEN -1 ELSE 1)
    ELSE IF a.patch # b.patch THEN (IF a.patch < b.patch THEN -1 ELSE 1)
    ELSE IF ~IsSome(a.qualifier) /\ ~IsSome(b.qualifier) THEN 0
    ELSE IF IsSome(a.qualifier) /\ ~IsSome(b.qualifier) THEN 1
    ELSE IF ~IsSome(a.qualifier) /\ IsSome(b.qualifier) THEN -1
    ELSE IF Unwrap(a.qualifier) = Unwrap(b.qualifier) THEN 0
    ELSE IF StrLess(Unwrap(a.qualifier), Unwrap(b.qualifier)) THEN -1 ELSE 1

(* impl Ord for MavenVersion: -1, 0, 1 *)
VersionCmp(a, b) ==
    IF a.major # b.major THEN (IF a.major < b.major THEN -1 ELSE 1)
    ELSE IF a.minor # b.minor THEN (IF a.minor < b.minor THEN -1 ELSE 1)
    ELSE IF a.patch # b.patch THEN (IF a.patch < b.patch THEN -1 ELSE 1)
    ELSE IF ~IsSome(a.qualifier) /\ ~IsSome(b.qualifier) THEN 0
    ELSE IF IsSome(a.qualifier) /\ ~IsSome(b.qualifier) THEN -1
    ELSE IF ~IsSome(a.qualifier) /\ IsSome(b.qualifier) THEN 1
    ELSE IF Unwrap(a.qualifier) = Unwrap(b.qualifier) THEN 0
    ELSE IF StrLess(Unwrap(a.qualifier), Unwrap(b.qualifier)) THEN -1 ELSE 1

(* impl PartialEq for MavenVersion *)
VersionEq(a, b) ==
    /\ a.major = b.major
    /\ a.minor = b.minor
    /\ a.patch = b.patch
    /\ a.qualifier = b.qualifier

(* enum VersionReq *)
Exact(v) == [kind |-> "Exact", v |-> v]
Range(min, minInc, max, maxInc) ==
    [kind |-> "Range", min |-> min, max |-> max,
     min_inclusive |-> minInc, max_inclusive |-> maxInc]
Latest == [kind |-> "Latest"]
Release == [kind |-> "Release"]

(* The text of a <version> element, by its tokens: a word (LATEST,        *)
(* RELEASE), a bracketed range with the two parts around its comma, or a   *)
(* plain version string.                                                   *)
WordText(w) == [form |-> "word", word |-> w]
RangeText(open, lo, hi, close) ==
    [form |-> "range", open |-> open, lo |-> lo, hi |-> hi, close |-> close]
PlainText(s) == [form |-> "plain", s |-> s]

(* VersionReq::parse *)
VersionReqParse(t) ==
    IF t.form = "word" /\ t.word = "LATEST" THEN [ok |-> TRUE, req |-> Latest]
    ELSE IF t.form = "word" /\ t.word = "RELEASE" THEN [ok |-> TRUE, req |-> Release]
    ELSE IF t.form = "word" THEN [ok |-> FALSE, err |-> "InvalidNumber"]
    ELSE IF t.form = "range" THEN
        LET lo == IF IsSome(t.lo) THEN ParseVersion(Unwrap(t.lo)) ELSE [ok |-> TRUE]
            hi == IF IsSome(t.hi) THEN ParseVersion(Unwrap(t.hi)) ELSE [ok |-> TRUE]
        IN  IF ~lo.ok THEN [ok |-> FALSE, err |-> lo.err]
            ELSE IF ~hi.ok THEN [ok |-> FALSE, err |-> hi.err]
            ELSE [ok |-> TRUE,
                  req |-> Range(IF IsSome(t.lo) THEN Some(lo.v) ELSE None,
                                t.open = "[",
                                IF IsSome(t.hi) THEN Some(hi.v) ELSE None,
                                t.close = "]")]
    ELSE LET p == ParseVersion(t.s)
         IN  IF p.ok THEN [ok |-> TRUE, req |-> Exact(p.v)]
             ELSE [ok |-> FALSE, err |-> p.err]

ExclusiveMax(req, version) ==
    IF req.kind = "Exact" THEN VersionEq(req.v, version)
    ELSE IF req.kind = "Range" THEN
        LET meets_min ==
                IF ~IsSome(req.min) THEN TRUE
                ELSE IF req.min_inclusive THEN VersionCmp(version, Unwrap(req.min)) >= 0
                ELSE VersionCmp(version, Unwrap(req.min)) > 0
            meets_max ==
                IF ~IsSome(req.max) THEN TRUE
                ELSE VersionCmp(version, Unwrap(req.max)) < 0
        IN  meets_min /\ meets_max
    ELSE TRUE

(* VersionReq::matches *)
Matches(req, version) ==
    IF req.kind = "Exact" THEN VersionEq(req.v, version)
    ELSE IF req.kind = "Range" THEN
        LET meets_min ==
                IF ~IsSome(req.min) THEN TRUE
                ELSE IF req.min_inclusive THEN VersionCmp(version, Unwrap(req.min)) >= 0
                ELSE VersionCmp(version, Unwrap(req.min)) > 0
            meets_max ==
                IF ~IsSome(req.max) THEN TRUE
                ELSE IF req.max_inclusive THEN VersionCmp(version, Unwrap(req.max)) <= 0
                ELSE VersionCmp(version, Unwrap(req.max)) < 0
        IN  meets_min /\ meets_max
    ELSE TRUE

(***************************************************************************)
(* coordinates.rs                                                          *)
(***************************************************************************)

Coordinate(namespace, name, version) ==
    [version |-> version, namespace |-> namespace, name |-> name]

(* Coordinate::parse on the colon-separated fields of the text *)
CoordinateParse(parts) ==
    IF Len(parts) = 2 THEN [ok |-> TRUE, c |-> Coordinate(parts[1], parts[2], None)]
    ELSE IF Len(parts) = 3
         THEN [ok |-> TRUE, c |-> Coordinate(parts[1], parts[2], Some(parts[3]))]
    ELSE [ok |-> FALSE]

(* impl Display for Coordinate: the colon-separated fields of the text *)
CoordToString(c) ==
    IF IsSome(c.version) THEN <<c.namespace, c.name, Unwrap(c.version)>>
    ELSE <<c.namespace, c.name>>

(* Coordinate::to_path: the directories below the store root *)
ToPath(c) == Append(c.namespace, c.name)

(***************************************************************************)
(* The registries' content (the oracle the resolver runs against).  Every  *)
(* coordinate lives in namespace "g".                                      *)
(***************************************************************************)

NS == <<"g">>
Coord(name) == Coordinate(NS, name, None)

V3(a, b, c) == VStr(<<a, b, c>>, None)
V2(a, b) == VStr(<<a, b>>, None)
RcQualifier == <<114, 99>>
V3q(a, b, c, q) == VStr(<<a, b, c>>, Some(q))

(* A <dependency> element of a pom. *)
Dependency(artifact, version, scope) ==
    [group_id |-> NS, artifact_id |-> artifact, version |-> version, scope |-> scope]

(* The pom document published for name at version (a version string). *)
PomOf(name, version) ==
    IF name = "A" THEN
        << Dependency("B", Some(RangeText("[", Some(V2(1, 0)), Some(V2(2, 0)), ")")), None),
           Dependency("C", Some(PlainText(V2(1, 0))), Some("compile")),
           Dependency("J", Some(PlainText(V2(4, 13))), Some("test")) >>
    ELSE IF name = "C" THEN
        << Dependency("B", Some(RangeText("[", Some(V2(1, 5)), Some(V2(3, 0)), ")")), None) >>
    ELSE IF name = "D" THEN
        << Dependency("C", Some(PlainText(V2(1, 0))), None) >>
    ELSE IF name = "E" THEN
        << Dependency("X", None, None),
           Dependency("Y", Some(RangeText("[", Some(V2(1, 0)), None, ")")), Some("runtime")) >>
    ELSE IF name = "F" THEN
        << Dependency("Z", Some(RangeText("[", Some(V2(1, 0)), Some(V2(2, 0)), ")")), None) >>
    ELSE IF name = "G" THEN
        << Dependency("W", Some(PlainText(V2(1, 0))), None) >>
    ELSE IF name = "H" THEN
        << Dependency("B", Some(RangeText("[", Some(V2(3, 0)), Some(V2(4, 0)), ")")), None) >>
    ELSE IF name = "R" THEN
        << Dependency("S", None, None) >>
    ELSE IF name = "S" THEN
        << Dependency("R", Some(RangeText("[", Some(V2(0, 1)), Some(V2(0, 9)), ")")), None) >>
    ELSE IF name = "K" THEN
        << Dependency("N", Some(WordText("RELEASE")), None) >>
    ELSE IF name = "T" THEN
        << Dependency("J", Some(PlainText(V2(4, 13))), Some("test")) >>
    ELSE IF name = "M" THEN
        << Dependency("U", None, None), Dependency("V", None, None) >>
    ELSE IF name = "U" THEN
        << Dependency("O", Some(RangeText("[", Some(V2(1, 0)), Some(V2(2, 0)), ")")), None) >>
    ELSE IF name = "V" THEN
        << Dependency("O", Some(RangeText("[", Some(V2(2, 0)), Some(V2(3, 0)), ")")), None) >>
    ELSE IF name = "P" THEN
        << Dependency("Q", Some(RangeText("[", Some(V2(1, 0)), Some(V2(2, 0)), ")")), None) >>
    ELSE << >>

(* ArtifactRepository::search: the versions a registry lists, as it lists  *)
(* them (newest first).  Z and Q have a version with a field that is no    *)
(* number ("3.0.Final", "1.0.Final"); W is listed nowhere.                 *)
Listing(repo, name) ==
    IF repo = "Mirror"
    THEN IF name = "B" THEN << V3(1, 8, 0) >>
         ELSE IF name = "C" THEN << V3(1, 0, 0) >>
         ELSE << >>
    ELSE IF repo # "MavenCentral" THEN << >>
    ELSE IF name \in {"A", "C", "D", "E", "F", "G", "H", "S", "K", "T", "M", "U", "V", "P"}
         THEN << V3(1, 0, 0) >>
    ELSE IF name = "Q" THEN << V3(1, 0, -1), V3(1, 5, 0) >>
    ELSE IF name = "O" THEN << V3(2, 5, 0), V3(1, 5, 0) >>
    ELSE IF name = "R" THEN << V3(1, 0, 0), V3(0, 5, 0) >>
    ELSE IF name = "N" THEN << V3q(2, 0, 0, RcQualifier), V3(1, 0, 0) >>
    ELSE IF name = "J" THEN << V3(4, 13, 0) >>
    ELSE IF name = "Z" THEN << V3(3, 0, -1), V3(0, 5, 0) >>
    ELSE IF name = "B" THEN << V3(2, 5, 0), V3(1, 8, 0), V3(1, 2, 0) >>
    ELSE IF name = "X" THEN << V3q(1, 0, 0, RcQualifier) >>
    ELSE IF name = "Y" THEN << V3(2, 3, 0), V3(1, 0, 0), V3(0, 9, 0) >>
    ELSE << >>

Range1(s) == { s[i] : i \in DOMAIN s }

(* Whether repo serves the jar and pom of name at the version string. *)
Publishes(repo, name, version) == version \in Range1(Listing(repo, name))

(* The artifacts the registry knows, and a byte for each. *)
Names == << "A", "B", "C", "D", "E", "X", "Y", "F", "G", "H", "J", "Z",
           "R", "S", "K", "N", "T", "M", "U", "V", "O", "P", "Q" >>
NameByte(name) == CHOOSE i \in DOMAIN Names : Names[i] = name

(* The bytes of the jar a registry serves. *)
JarBytes(repo, name, version) ==
    << NameByte(name), version.nums[1], version.nums[2], version.nums[3] >>

(***************************************************************************)
(* download.rs: RepositoryManager over its ordered registries; `up` is the *)
(* set of registries whose requests succeed.  The methods loop over        *)
(* self.repositories, whatever the Vec holds: each is given here for a     *)
(* list of registries, with the registries it contacted, and then for the  *)
(* list RepositoryManager::new builds.                                     *)
(***************************************************************************)

(* RepositoryManager::new: the registries, in order. *)
Repositories == << "MavenCentral" >>

(* `for repo in repositories` with a return at the first success: the      *)
(* index of the first registry, in list order, that is in serving (0: the  *)
(* loop runs to its end).                                                  *)
LastOf(repositories, serving) ==
    IF \E i \in DOMAIN repositories : repositories[i] \in serving
    THEN CHOOSE i \in DOMAIN repositories :
            /\ repositories[i] \in serving
            /\ \A j \in (i + 1)..Len(repositories) : repositories[j] \notin serving
    ELSE 0
FirstOf(repositories, serving) ==
    IF \E i \in DOMAIN repositories : repositories[i] \in serving
    THEN CHOOSE i \in DOMAIN repositories :
            /\ repositories[i] \in serving
            /\ \A j \in 1..(i - 1) : repositories[j] \notin serving
    ELSE 0

(* The registries a loop has called when it returns at index i. *)
Contacted(repositories, i) ==
    IF i = 0 THEN repositories ELSE SubSeq(repositories, 1, i)

(* search_versions over a list: every registry is called, an Err is        *)
(* dropped, and the call returns Ok with what was collected.               *)
SearchVersionsIn(repositories, up, coord) ==
    [ok |-> TRUE,
     versions |-> UNION { Range1(Listing(repositories[i], coord.name)) :
                          i \in { j \in DOMAIN repositories : repositories[j] \in up } },
     contacted |-> repositories]

(* download_jar over a list *)
DownloadJarIn(repositories, up, coord, version) ==
    LET i == FirstOf(repositories, { r \in up : Publishes(r, coord.name, version) })
    IN  IF i = 0 THEN [ok |-> FALSE, contacted |-> Contacted(repositories, i)]
        ELSE [ok |-> TRUE, bytes |-> JarBytes(repositories[i], coord.name, version),
              from |-> repositories[i], contacted |-> Contacted(repositories, i)]

(* download_metadata over a list *)
DownloadMetadataIn(repositories, up, coord, version) ==
    LET i == FirstOf(repositories, { r \in up : Publishes(r, coord.name, version) })
    IN  IF i = 0 THEN [ok |-> FALSE, contacted |-> Contacted(repositories, i)]
        ELSE [ok |-> TRUE, text |-> PomOf(coord.name, version),
              from |-> repositories[i], contacted |-> Contacted(repositories, i)]

(* fetch_source_repo over a list: the first registry whose search call     *)
(* is_ok(), whatever it lists.                                             *)
FetchSourceRepoIn(repositories, up, coord) ==
    LET i == FirstOf(repositories, up)
    IN  IF i = 0 THEN [ok |-> FALSE, contacted |-> Contacted(repositories, i)]
        ELSE [ok |-> TRUE, name |-> repositories[i],
              contacted |-> Contacted(repositories, i)]

(* search_versions: the de-duplicated union of the registries that answer. *)
SearchVersions(up, coord) == SearchVersionsIn(Repositories, up, coord).versions

(* The first registry of the manager, in list order, that is in serving.   *)
FirstRepo(serving) == FirstOf(Repositories, serving)

(* download_jar *)
DownloadJar(up, coord, version) ==
    LET r == DownloadJarIn(Repositories, up, coord, version)
    IN  IF r.ok THEN [ok |-> TRUE, bytes |-> r.bytes] ELSE [ok |-> FALSE]

(* download_metadata *)
DownloadMetadata(up, coord, version) ==
    LET r == DownloadMetadataIn(Repositories, up, coord, version)
    IN  IF r.ok THEN [ok |-> TRUE, text |-> r.text] ELSE [ok |-> FALSE]

(* fetch_source_repo: the first registry whose search call succeeds. *)
FetchSourceRepo(up, coord) ==
    LET r == FetchSourceRepoIn(Repositories, up, coord)
    IN  IF r.ok THEN [ok |-> TRUE, name |-> r.name] ELSE [ok |-> FALSE]

(* Sha256 + hex + the "sha256:" prefix, as an injective digest of bytes. *)
Integrity(bytes) == << "sha256", bytes >>

(***************************************************************************)
(* repository.rs: the local store, the files and the directories at and    *)
(* below its root.  A directory is named by the path segments below the    *)
(* root and, for a version directory, the version below them.  The name of *)
(* a directory entry that is not a version text reads [word |-> segment].  *)
(***************************************************************************)

Dir(path, version) == [path |-> path, version |-> version]

(* self.root, and the directory it lies in. *)
Root == Dir(<< >>, None)
Above == Dir(<< ".." >>, None)

(* Path::parent *)
Parent(d) ==
    IF IsSome(d.version) THEN Dir(d.path, None)
    ELSE IF d.path = << >> THEN Above
    ELSE Dir(SubSeq(d.path, 1, Len(d.path) - 1), None)

(* current.starts_with(&self.root) *)
StartsWithRoot(d) == d # Above

(* The directory d and the directories above it, up to the root. *)
RECURSIVE Ancestors(_)
Ancestors(d) == IF d = Root THEN {Root} ELSE {d} \cup Ancestors(Parent(d))

(* Whether e is d or lies below d. *)
IsUnder(d, e) ==
    IF IsSome(d.version) THEN e = d
    ELSE Len(e.path) >= Len(d.path) /\ SubSeq(e.path, 1, Len(d.path)) = d.path

(* A store whose root exists and holds nothing. *)
EmptyStore == [files |-> EmptyMap, dirs |-> {Root}]

(* Project::ensure_dirs: create_dir_all(repository_dir) *)
EnsureDirs(st) == [st EXCEPT !.dirs = @ \cup {Root}]

Extension(kind) == IF kind = "Binary" THEN "jar" ELSE "pom"

(* get_artifact_path: <root>/<to_path>/<version>/<name>-<version>.<ext> *)
GetArtifactPath(coord, version, kind) ==
    [dir |-> ToPath(coord), version |-> version,
     file |-> <<coord.name, version, Extension(kind)>>]

(* The directory a file path lies in. *)
FileDir(path) == Dir(path.dir, Some(path.version))

(* self.root.join(coord.to_path()).join(version); a version that is the    *)
(* name of a path segment names that segment's directory.                  *)
VersionDir(coord, version) ==
    IF "word" \in DOMAIN version THEN Dir(Append(ToPath(coord), version.word), None)
    ELSE Dir(ToPath(coord), Some(version))

(* has_artifact *)
HasArtifact(st, coord, version, kind) ==
    GetArtifactPath(coord, version, kind) \in DOMAIN st.files

(* load_artifact (of an artifact that is there) *)
LoadArtifact(st, coord, version, kind) == st.files[GetArtifactPath(coord, version, kind)]

(* load_artifact: fs::read fails on a path that is not there *)
TryLoadArtifact(st, coord, version, kind) ==
    IF HasArtifact(st, coord, version, kind)
    THEN [ok |-> TRUE, content |-> LoadArtifact(st, coord, version, kind)]
    ELSE [ok |-> FALSE, err |-> "NotFound"]

StoreIfAbsent(st, coord, version, kind, content) ==
    LET path == GetArtifactPath(coord, version, kind)
    IN  [files |-> IF path \in DOMAIN st.files THEN st.files
                   ELSE Put(st.files, path, content),
         dirs |-> st.dirs \cup Ancestors(FileDir(path))]

(* store_artifact, run to completion: create_dir_all, fs::write *)
StoreArtifact(st, coord, version, kind, content) ==
    LET path == GetArtifactPath(coord, version, kind)
    IN  [files |-> Put(st.files, path, content),
         dirs |-> st.dirs \cup Ancestors(FileDir(path))]

(* is_dir_empty: read_dir(path) has no entry *)
AlwaysEmpty(st, d) == TRUE
IsDirEmpty(st, d) ==
    /\ \A e \in st.dirs : e = d \/ ~IsUnder(d, e)
    /\ \A f \in DOMAIN st.files : ~IsUnder(d, FileDir(f))

(* fs::remove_dir_all *)
RemoveDirAll(st, d) ==
    [files |-> [f \in { g \in DOMAIN st.files : ~IsUnder(d, FileDir(g)) } |-> st.files[f]],
     dirs |-> { e \in st.dirs : ~IsUnder(d, e) }]

(* cleanup_empty_dirs: remove current while it is at or below the root and *)
(* empty, and go on with its parent.                                       *)
RECURSIVE CleanupEmptyDirs(_, _)
CleanupEmptyDirs(st, current) ==
    IF StartsWithRoot(current) /\ IsDirEmpty(st, current)
    THEN CleanupEmptyDirs([st EXCEPT !.dirs = @ \ {current}], Parent(current))
    ELSE st

(* remove_artifacts *)
RemoveArtifacts(st, coord, version) ==
    LET version_dir == VersionDir(coord, version)
    IN  IF version_dir \in st.dirs
        THEN CleanupEmptyDirs(RemoveDirAll(st, version_dir), Parent(version_dir))
        ELSE st

(* list_versions: the names of the directories in the coordinate's         *)
(* directory.                                                              *)
ListVersions(st, coord) ==
    LET coord_dir == Dir(ToPath(coord), None)
    IN  IF coord_dir \notin st.dirs THEN {}
        ELSE { Unwrap(e.version) : e \in { d \in st.dirs : IsSome(d.version)
                                                          /\ Parent(d) = coord_dir } }
             \cup { [word |-> e.path[Len(e.path)]] :
                      e \in { d \in st.dirs : ~IsSome(d.version) /\ d # Root
                                                /\ Parent(d) = coord_dir } }

(***************************************************************************)
(* resolver.rs: DependencyGraph                                            *)
(***************************************************************************)

DependencyRequest(coordinate, version_req, scope, depth) ==
    [coordinate |-> coordinate, version_req |-> version_req,
     scope |-> scope, depth |-> depth]

NewGraph == [resolved |-> EmptyMap, requirements |-> EmptyMap, edges |-> EmptyMap]

(* add_requirement *)
AddRequirement(g, coord, req, depth) ==
    LET old == IF coord \in DOMAIN g.requirements THEN g.requirements[coord] ELSE << >>
    IN  [g EXCEPT !.requirements = Put(@, coord, Append(old, <<req, depth>>))]

(* add_edge *)
AddEdge(g, from, to) ==
    LET old == IF from \in DOMAIN g.edges THEN g.edges[from] ELSE {}
    IN  [g EXCEPT !.edges = Put(@, from, old \cup {to})]

InsertIfAbsent(g, coord, version) ==
    IF coord \in DOMAIN g.resolved THEN g
    ELSE [g EXCEPT !.resolved = Put(@, coord, version)]

(* add_resolution *)
AddResolution(g, coord, version) == [g EXCEPT !.resolved = Put(@, coord, version)]

RECURSIVE LaterFirst(_, _)
LaterFirst(sorted, x) ==
    IF sorted = << >> THEN << x >>
    ELSE IF sorted[Len(sorted)][2] < x[2] THEN Append(sorted, x)
    ELSE Append(LaterFirst(SubSeq(sorted, 1, Len(sorted) - 1), x), sorted[Len(sorted)])

(* Vec::sort_by_key(|(_, depth)| depth): a stable sort. *)
RECURSIVE InsertByDepth(_, _)
InsertByDepth(sorted, x) ==
    IF sorted = << >> THEN << x >>
    ELSE IF sorted[Len(sorted)][2] <= x[2] THEN Append(sorted, x)
    ELSE Append(InsertByDepth(SubSeq(sorted, 1, Len(sorted) - 1), x), sorted[Len(sorted)])

RECURSIVE SortByDepth(_)
SortByDepth(reqs) ==
    IF reqs = << >> THEN << >>
    ELSE InsertByDepth(SortByDepth(SubSeq(reqs, 1, Len(reqs) - 1)), reqs[Len(reqs)])

(* The requirement check_version_compatibility tests against. *)
NearestLast(reqs) == reqs[Len(reqs)][1]
NearestReq(reqs) == SortByDepth(reqs)[1][1]

(* check_version_compatibility *)
CheckVersionCompatibility(g, coord, version) ==
    IF coord \in DOMAIN g.requirements
    THEN Matches(NearestReq(g.requirements[coord]), version)
    ELSE TRUE

(* `if dep.scope.as_deref() == Some("test") { continue; }`: whether a       *)
(* <dependency> element is turned into a request.                          *)
KeepsAll(dep) == TRUE
NotTestScope(dep) == dep.scope # Some("test")

(* PomParser::parse_dependencies on the <dependency> elements of a pom. *)
ParseDependencies(content) ==
    LET kept == SelectSeq(content, NotTestScope)
        req(d) == IF IsSome(d.version) THEN VersionReqParse(Unwrap(d.version))
                  ELSE [ok |-> TRUE, req |-> Latest]
    IN  IF \E i \in DOMAIN kept : ~req(kept[i]).ok THEN [ok |-> FALSE]
        ELSE [ok |-> TRUE,
              requests |-> [i \in DOMAIN kept |->
                  DependencyRequest(Coordinate(kept[i].group_id, kept[i].artifact_id, None),
                                    req(kept[i]).req, kept[i].scope, 0)]]

(* The candidate loop of resolve: the first candidate, in the order the    *)
(* search handed them out, that is compatible; a candidate that does not   *)
(* parse ends the resolution.                                              *)
RECURSIVE FirstCompatible(_, _, _)
FirstCompatible(available_versions, g, coord) ==
    IF available_versions = << >> THEN [ok |-> TRUE, found |-> None]
    ELSE LET p == ParseVersion(Head(available_versions))
         IN  IF ~p.ok THEN [ok |-> FALSE, err |-> p.err]
             ELSE IF CheckVersionCompatibility(g, coord, p.v)
                  THEN [ok |-> TRUE, found |-> Some(p.v)]
             ELSE FirstCompatible(Tail(available_versions), g, coord)

(***************************************************************************)
(* prune.rs and DependencyResolver::remove                                 *)
(***************************************************************************)

NewPruner == [marked_from_removed |-> {}, marked_from_remaining |-> {}, visited |-> {}]

RECURSIVE MarkTree(_, _, _, _)
RECURSIVE MarkDeps(_, _, _, _)

(* mark_tree: depth-first over PackageInfo.deps *)
MarkTree(pruner, coord, lock, for_removed) ==
    IF coord \in pruner.visited THEN pruner
    ELSE LET p1 == [pruner EXCEPT
                      !.visited = @ \cup {coord},
                      !.marked_from_removed = IF for_removed THEN @ \cup {coord} ELSE @,
                      !.marked_from_remaining = IF for_removed THEN @ ELSE @ \cup {coord}]
         IN  IF CoordToString(coord) \in DOMAIN lock.deps
             THEN MarkDeps(p1, lock.deps[CoordToString(coord)].deps, lock, for_removed)
             ELSE p1

(* the loop of mark_tree over pkg_info.deps *)
MarkDeps(pruner, dep_coords, lock, for_removed) ==
    IF dep_coords = << >> THEN pruner
    ELSE LET dep == CoordinateParse(Head(dep_coords))
             p1 == IF dep.ok THEN MarkTree(pruner, dep.c, lock, for_removed) ELSE pruner
         IN  MarkDeps(p1, Tail(dep_coords), lock, for_removed)

(* get_removable *)
GetRemovable(pruner) ==
    { e \in pruner.marked_from_removed : e \notin pruner.marked_from_remaining }

(* The loop of remove over the lockfile's keys: every key that parses to   *)
(* a coordinate other than coord starts mark_tree(&coord, lockfile, false).*)
RECURSIVE MarkRemaining(_, _, _, _)
MarkRemaining(pruner, keys, coord, lock) ==
    IF keys = {} THEN pruner
    ELSE LET coord_str == CHOOSE k \in keys : TRUE
             c == CoordinateParse(coord_str)
             p1 == IF c.ok /\ c.c # coord THEN MarkTree(pruner, coord, lock, FALSE)
                   ELSE pruner
         IN  MarkRemaining(p1, keys \ {coord_str}, coord, lock)

RECURSIVE DropAll(_, _)
DropAll(f, keys) ==
    IF keys = {} THEN f
    ELSE LET k == CHOOSE k \in keys : TRUE IN DropAll(Drop(f, k), keys \ {k})

(* DependencyResolver::remove: the lockfile it leaves. *)
RemoveFrom(coord, lock) ==
    LET p1 == MarkTree(NewPruner, coord, lock, TRUE)
        p2 == MarkRemaining(p1, DOMAIN lock.deps, coord, lock)
        to_remove == GetRemovable(p2)
    IN  [lock EXCEPT !.deps =
            DropAll(Drop(@, CoordToString(coord)), { CoordToString(c) : c \in to_remove })]

(***************************************************************************)
(* lockfile.rs                                                             *)
(***************************************************************************)

(* Lockfile::new *)
NewLockfile == [version |-> 1, deps |-> EmptyMap]

PackageInfo(version, repository, integrity, deps) ==
    [version |-> version, deps |-> deps, repository |-> repository, integrity |-> integrity]

(* get_stringified_edges: the strings of graph.edges[coord], as a set; the *)
(* Vec is collected from a HashSet, in the order it iterates.              *)
GetStringifiedEdges(g, coord) ==
    IF coord \in DOMAIN g.edges THEN { CoordToString(d) : d \in g.edges[coord] } ELSE {}

(* merge_graph skips an entry whose key holds the same version already. *)
NeverSkip(lock, coord, version) == FALSE
SkipEntry(lock, coord, version) ==
    /\ CoordToString(coord) \in DOMAIN lock.deps
    /\ lock.deps[CoordToString(coord)].version = VersionToString(version)

(* The text of a lockfile file, by the pieces of the JSON document that    *)
(* are in it: the "version" member, the members of "deps" (each a key with *)
(* its PackageInfo; they are written in the order the HashMap iterates,    *)
(* and the text does not depend on it beyond that order), and the closing  *)
(* brace.  An empty file holds none of them.                               *)
NoText == [version |-> None, deps |-> {}, closed |-> FALSE]

WithoutDeps(lock) == [version |-> Some(lock.version), deps |-> {}, closed |-> TRUE]

(* serde_json::to_string_pretty(self) *)
ToStringPretty(lock) ==
    [version |-> Some(lock.version),
     deps |-> { << k, lock.deps[k] >> : k \in DOMAIN lock.deps },
     closed |-> TRUE]

(* serde_json::from_str: a text that is cut short is an error. *)
FromStr(text) ==
    IF ~text.closed \/ ~IsSome(text.version) THEN [ok |-> FALSE]
    ELSE [ok |-> TRUE,
          lock |-> [version |-> Unwrap(text.version),
                    deps |-> [k \in { m[1] : m \in text.deps } |->
                                 (CHOOSE m \in text.deps : m[1] = k)[2]]]]

(* Lockfile::read of the file at the lockfile path (None: no such file). *)
LockfileRead(file) ==
    IF IsSome(file) THEN FromStr(Unwrap(file)) ELSE [ok |-> TRUE, lock |-> NewLockfile]

(* The pieces of content that text lacks, and text with one more of them:  *)
(* write_all hands the content to the file front to back.                  *)
NextPieces(text, content) ==
    IF ~IsSome(text.version) THEN { [text EXCEPT !.version = content.version] }
    ELSE IF text.deps # content.deps
         THEN { [text EXCEPT !.deps = @ \cup {m}] : m \in content.deps \ text.deps }
    ELSE IF ~text.closed THEN { [text EXCEPT !.closed = TRUE] }
    ELSE {}

(* Lockfile::write writes into NamedTempFile::new_in(dir), not into the    *)
(* file at the lockfile path.                                              *)
InPlace == "path"
WriteTarget == "temp"

(***************************************************************************)
(* The state: a client that calls resolve, merge_graph and remove on one   *)
(* resolver, one store and one lockfile, as the Add and Del commands do.   *)
(***************************************************************************)

VARIABLES
    up,        \* the registries whose requests succeed
    store,     \* the local store: its files (artifact path -> content) and directories
    lockfile,  \* the Lockfile the client holds
    pc,        \* "idle", "resolve" (inside resolve), "merge" (inside merge_graph)
    run,       \* the arguments of the resolve call under way or last made
    graph,     \* resolve's graph; once returned, the graph the client holds
    queue,     \* resolve's work queue
    seen,      \* resolve's seen set
    cur,       \* the queue item resolve is working on
    deps,      \* the requests of cur's pom not yet handled
    todo,      \* merge_graph: the entries of graph.resolved not yet visited
    calls,     \* registry calls made by the call under way or last made
    merges,    \* merge_graph calls made with the graph held
    hist,      \* the last two completed calls, latest first
    ops,       \* resolve, remove and new-store calls made so far
    wr,        \* the store_artifact call under way, if one is
    handed,    \* artifact path -> the contents store_artifact was given for it
    files,     \* the file at the lockfile path and Lockfile::write's temporary file
    lw,        \* the Lockfile::write call under way, if one is
    res,       \* the last call made on a manager or a store alone, with its result
    recent,    \* artifact -> the content of the store_artifact call made last for
               \* it, none once remove_artifacts was called for its version
    pr         \* the pruner a mark_tree call runs on, with the call's stack

vars == << up, store, lockfile, pc, run, graph, queue, seen, cur, deps, todo,
           calls, merges, hist, ops, wr, handed, files, lw, res, recent, pr >>

(* What store_artifact's own steps change, what Lockfile::write's own      *)
(* steps change, what a call on a manager or a store alone changes, and    *)
(* what the commands' calls change.                                        *)
writer == << wr, handed >>
lockwriter == << lw >>
lastcall == << res, recent >>
pruning == << pr >>
aside == << writer, lockwriter, lastcall, pruning >>
client == << up, lockfile, pc, run, graph, queue, seen, cur, deps, todo, calls,
             merges, hist >>

(* Bounds of the model. *)
MaxOps == 3
MaxMerges == 2

(* The coordinate strings given to the Add command. *)
AddInputs == { <<NS, "A", V2(1, 0)>>, <<NS, "D">>, <<NS, "E", V3(1, 0, 0)>> }

(* The coordinate strings given to the Del command. *)
DelInputs == { <<NS, "A", V2(1, 0)>>, <<NS, "A">>, <<NS, "D">>, <<NS, "E", V3(1, 0, 0)>> }

NoCalls == [jar |-> 0, metadata |-> 0, search |-> 0, source |-> 0]

NoRun == [root |-> Coord("A"), version |-> V3(0, 0, 0),
          root_version |-> MavenVersion(0, 0, 0, None), fresh |-> FALSE]

(* The anyhow::Error a call returns, by what it says. *)
NoError == [kind |-> "none"]
ErrorOf(kind) == [kind |-> kind]
NoCompatibleVersion(coord, req) ==
    [kind |-> "no compatible version found", coord |-> CoordToString(coord), req |-> req]

(* A completed call, as the history keeps it. *)
Call(op, ok, r, g, lock, before, c, coord) ==
    [op |-> op, ok |-> ok, root |-> r.root, version |-> r.version, fresh |-> r.fresh,
     graph |-> g, lock |-> lock, before |-> before, calls |-> c, coord |-> coord,
     error |-> NoError]

NoCur == [coord |-> Coord("A"), depth |-> 0]

(* Neither the lockfile nor a temporary file exists. *)
NoFiles == [path |-> None, temp |-> None]

NoRes == [op |-> "none"]

(* DependencyPruner::new, with no mark_tree call made on it. *)
NoPrune ==
    [lock |-> NewLockfile, pruner |-> NewPruner, stack |-> << >>, visits |-> EmptyMap,
     marks |-> 0, for_removed |-> FALSE, root |-> None, keys |-> << >>, pass |-> "none"]

NoCall == Call("none", FALSE, NoRun, NewGraph, NewLockfile, NewLockfile, NoCalls, Coord("A"))

(* The history keeps the call before the last only when it is a call of    *)
(* the same operation.                                                     *)
Push(call) == << call, IF hist[1].op = call.op THEN hist[1] ELSE NoCall >>

Init ==
    /\ up \in SUBSET Range1(Repositories)
    /\ store = EmptyStore
    /\ lockfile = NewLockfile
    /\ pc = "idle"
    /\ run = NoRun
    /\ graph = NewGraph
    /\ queue = << >>
    /\ seen = {}
    /\ cur = NoCur
    /\ deps = << >>
    /\ todo = {}
    /\ calls = NoCalls
    /\ merges = 0
    /\ hist = << NoCall, NoCall >>
    /\ ops = 0
    /\ wr = None
    /\ handed = EmptyMap
    /\ files = NoFiles
    /\ lw = None
    /\ res = NoRes
    /\ recent = EmptyMap
    /\ pr = NoPrune

(* resolve returns Err: its graph, queue and seen set are dropped. *)
ResolveFails(r, c, st, error) ==
    /\ pc' = "idle"
    /\ run' = r
    /\ graph' = NewGraph
    /\ queue' = << >>
    /\ seen' = {}
    /\ deps' = << >>
    /\ calls' = c
    /\ store' = st
    /\ merges' = 0
    /\ cur' = NoCur
    /\ hist' = Push([Call("resolve", FALSE, r, NewGraph, NewLockfile, NewLockfile, c,
                           r.root) EXCEPT !.error = error])
    /\ UNCHANGED << up, lockfile, todo >>

(* main, ensure_dirs and Commands::Add up to the call of resolve, and      *)
(* resolve up to its loop: the version is the one in the coordinate, else  *)
(* the first version search_versions hands out.                            *)
Add(input) ==
    /\ UNCHANGED << aside, files >>
    /\ pc = "idle"
    /\ ops < MaxOps
    /\ CoordinateParse(input).ok
    /\ ops' = ops + 1
    /\ LET coord == CoordinateParse(input).c
           given == IsSome(coord.version)
       IN  \E versions \in Orders(IF given THEN {} ELSE SearchVersions(up, coord)) :
             LET c == [NoCalls EXCEPT !.search = IF given THEN 0 ELSE 1]
             IN  IF ~given /\ versions = << >>
                 THEN /\ calls' = c
                      /\ store' = EnsureDirs(store)
                      /\ UNCHANGED << up, lockfile, pc, run, graph, queue, seen,
                                      cur, deps, todo, merges, hist >>
                 ELSE LET version == IF given THEN Unwrap(coord.version) ELSE versions[1]
                          root_version == ParseVersion(version)
                          r == [root |-> coord, version |-> version,
                                root_version |-> IF root_version.ok THEN root_version.v
                                                 ELSE NoRun.root_version,
                                fresh |-> store.files = EmptyMap]
                      IN  IF ~root_version.ok
                          THEN ResolveFails(r, c, EnsureDirs(store),
                                            ErrorOf(root_version.err))
                          ELSE /\ pc' = "resolve"
                               /\ run' = r
                               /\ graph' = NewGraph
                               /\ queue' = << [coord |-> coord, version |-> root_version.v,
                                               depth |-> 0] >>
                               /\ seen' = {}
                               /\ deps' = << >>
                               /\ calls' = c
                               /\ merges' = 0
                               /\ store' = EnsureDirs(store)
                               /\ UNCHANGED << up, lockfile, cur, todo, hist >>

ParserDepth(requests, depth) == requests

(* `for dep in &mut deps { dep.depth = depth + 1; }` *)
AtDepth(requests, depth) ==
    [i \in DOMAIN requests |-> [requests[i] EXCEPT !.depth = depth + 1]]

(* The key of resolve's seen set: format!("{}:{:?}", coord, version). *)
SeenKey(coord, version) == << CoordToString(coord), version >>

(* resolve, one turn of the loop up to the parsed requests: pop, skip a    *)
(* seen item, fetch or reuse the jar and the pom, parse the pom.           *)
ResolveVisit ==
    /\ UNCHANGED << aside, files >>
    /\ pc = "resolve"
    /\ deps = << >>
    /\ queue # << >>
    /\ LET item == Head(queue)
           coord == item.coord
           version == VersionToString(item.version)
           key == SeenKey(coord, item.version)
           hasJar == HasArtifact(store, coord, version, "Binary")
           jar == DownloadJar(up, coord, version)
           c1 == IF hasJar THEN calls ELSE [calls EXCEPT !.jar = @ + 1]
           st1 == IF hasJar THEN store
                  ELSE StoreArtifact(store, coord, version, "Binary", jar.bytes)
           hasPom == HasArtifact(st1, coord, version, "Metadata")
           pom == DownloadMetadata(up, coord, version)
           c2 == IF hasPom THEN c1 ELSE [c1 EXCEPT !.metadata = @ + 1]
           st2 == IF hasPom THEN st1
                  ELSE StoreArtifact(st1, coord, version, "Metadata", pom.text)
           metadata == IF hasPom THEN LoadArtifact(st1, coord, version, "Metadata")
                       ELSE pom.text
           parsed == ParseDependencies(metadata)
       IN  IF key \in seen
           THEN /\ queue' = Tail(queue)
                /\ UNCHANGED << up, store, lockfile, pc, run, graph, seen, cur, deps,
                                todo, calls, merges, hist >>
           ELSE IF ~hasJar /\ ~jar.ok
                THEN ResolveFails(run, c1, store, ErrorOf("could not download jar"))
           ELSE IF ~hasPom /\ ~pom.ok
                THEN ResolveFails(run, c2, st1, ErrorOf("could not download metadata"))
           ELSE IF ~parsed.ok THEN ResolveFails(run, c2, st2, ErrorOf("metadata"))
           ELSE /\ queue' = Tail(queue)
                /\ seen' = seen \cup {key}
                /\ store' = st2
                /\ calls' = c2
                /\ cur' = [coord |-> coord, depth |-> item.depth]
                /\ deps' = AtDepth(parsed.requests, item.depth)
                /\ UNCHANGED << up, lockfile, pc, run, graph, todo, merges, hist >>
    /\ ops' = ops

(* resolve, the body of `for dep in deps` for the next request: record the *)
(* requirement and the edge, search, select, enqueue.                      *)
ResolveDep ==
    /\ UNCHANGED << aside, files >>
    /\ pc = "resolve"
    /\ deps # << >>
    /\ ops' = ops
    /\ LET dep == Head(deps)
           g1 == AddEdge(AddRequirement(graph, dep.coordinate, dep.version_req, dep.depth),
                         cur.coord, dep.coordinate)
           c1 == [calls EXCEPT !.search = @ + 1]
       IN  \E available_versions \in Orders(SearchVersions(up, dep.coordinate)) :
             LET sel == FirstCompatible(available_versions, g1, dep.coordinate)
             IN  IF ~sel.ok THEN ResolveFails(run, c1, store, ErrorOf(sel.err))
                 ELSE IF ~IsSome(sel.found)
                      THEN ResolveFails(run, c1, store,
                                        NoCompatibleVersion(dep.coordinate,
                                                            dep.version_req))
                 ELSE /\ graph' = AddResolution(g1, dep.coordinate, Unwrap(sel.found))
                      /\ queue' = Append(queue, [coord |-> dep.coordinate,
                                                 version |-> Unwrap(sel.found),
                                                 depth |-> dep.depth])
                      /\ deps' = Tail(deps)
                      /\ calls' = c1
                      /\ UNCHANGED << up, store, lockfile, pc, run, seen, cur, todo,
                                      merges, hist >>

(* resolve, after the loop: the root's resolution, and Ok(graph). *)
ResolveReturn ==
    /\ UNCHANGED << aside, files >>
    /\ pc = "resolve"
    /\ deps = << >>
    /\ queue = << >>
    /\ graph' = AddResolution(graph, run.root, run.root_version)
    /\ pc' = "idle"
    /\ seen' = {}
    /\ cur' = NoCur
    /\ hist' = Push(Call("resolve", TRUE, run, graph', NewLockfile, NewLockfile, calls,
                         run.root))
    /\ UNCHANGED << up, store, lockfile, run, queue, deps, todo, calls, merges, ops >>

(* main, Commands::Add after merge_graph: `lockfile.merge_graph(..).await?` *)
(* returns from main on Err, and on Ok `lockfile.write(..)` follows (run to *)
(* completion here).  The file at the lockfile path after that.            *)
WriteAnyway(ok, file, lock) == Some(ToStringPretty(lock))
AfterMerge(ok, file, lock) == IF ok THEN Some(ToStringPretty(lock)) ELSE file

(* main, Commands::Add after resolve: Lockfile::read of the lockfile path, *)
(* and merge_graph is called with the graph the client holds.  A second    *)
(* merge_graph with the same graph is called on the Lockfile in memory.    *)
MergeBegin ==
    /\ UNCHANGED << aside, files >>
    /\ pc = "idle"
    /\ merges < MaxMerges
    /\ hist[1].ok
    /\ hist[1].op \in {"resolve", "merge"}
    /\ LockfileRead(files.path).ok
    /\ lockfile' = IF merges = 0 THEN LockfileRead(files.path).lock ELSE lockfile
    /\ pc' = "merge"
    /\ merges' = merges + 1
    /\ todo' = DOMAIN graph.resolved
    /\ calls' = NoCalls
    /\ UNCHANGED << up, store, run, graph, queue, seen, cur, deps, hist, ops >>

(* merge_graph returns Err; the entries already inserted stay in the       *)
(* Lockfile it was given.                                                  *)
MergeFails(c) ==
    /\ pc' = "idle"
    /\ files' = [files EXCEPT !.path = AfterMerge(FALSE, @, lockfile)]
    /\ todo' = {}
    /\ calls' = c
    /\ hist' = Push(Call("merge", FALSE, NoRun, graph, lockfile, NewLockfile, c, run.root))
    /\ UNCHANGED << up, store, lockfile, run, graph, queue, seen, cur, deps, merges, ops >>

(* merge_graph, the loop body for one entry of graph.resolved, in the      *)
(* order the HashMap iterates.                                             *)
MergeEntry(coord) ==
    /\ UNCHANGED aside
    /\ pc = "merge"
    /\ coord \in todo
    /\ LET version == graph.resolved[coord]
           key == CoordToString(coord)
           jar == DownloadJar(up, coord, VersionToString(version))
           c1 == [calls EXCEPT !.jar = @ + 1]
           repo_name == FetchSourceRepo(up, coord)
           c2 == [c1 EXCEPT !.source = @ + 1]
       IN  IF SkipEntry(lockfile, coord, version)
           THEN /\ todo' = todo \ {coord}
                /\ UNCHANGED << up, store, lockfile, pc, run, graph, queue, seen, cur,
                                deps, calls, merges, hist, ops, files >>
           ELSE IF ~jar.ok THEN MergeFails(c1)
           ELSE IF ~repo_name.ok THEN MergeFails(c2)
           ELSE \E edges \in Orders(GetStringifiedEdges(graph, coord)) :
                  /\ lockfile' = [lockfile EXCEPT !.deps =
                        Put(@, key, PackageInfo(VersionToString(version), repo_name.name,
                                                Integrity(jar.bytes), edges))]
                  /\ todo' = todo \ {coord}
                  /\ calls' = c2
                  /\ UNCHANGED << up, store, pc, run, graph, queue, seen, cur, deps,
                                  merges, hist, ops, files >>

(* merge_graph returns Ok, and main writes the lockfile. *)
MergeReturn ==
    /\ UNCHANGED aside
    /\ pc = "merge"
    /\ todo = {}
    /\ pc' = "idle"
    /\ files' = [files EXCEPT !.path = AfterMerge(TRUE, @, lockfile)]
    /\ hist' = Push(Call("merge", TRUE, NoRun, graph, lockfile, NewLockfile, calls,
                         run.root))
    /\ UNCHANGED << up, store, lockfile, run, graph, queue, seen, cur, deps, todo, calls,
                    merges, ops >>

(* main, Commands::Del, the loop `for version in repo.list_versions(..)`. *)
RECURSIVE RemoveVersions(_, _, _)
RemoveVersions(st, coord, versions) ==
    IF versions = {} THEN st
    ELSE LET version == CHOOSE v \in versions : TRUE
         IN  RemoveVersions(RemoveArtifacts(st, coord, version), coord,
                            versions \ {version})

(* main, Commands::Del, the loop `for dep_str in removed_deps`: a key with *)
(* a version removes that version's directory, a key without one removes   *)
(* every version directory list_versions finds.  The store it leaves does  *)
(* not depend on the order of the keys.                                    *)
RECURSIVE CleanRemoved(_, _)
CleanRemoved(st, removed_deps) ==
    IF removed_deps = {} THEN st
    ELSE LET dep_str == CHOOSE k \in removed_deps : TRUE
             dep_coord == CoordinateParse(dep_str)
             st1 == IF ~dep_coord.ok THEN st
                    ELSE IF IsSome(dep_coord.c.version)
                         THEN RemoveArtifacts(st, dep_coord.c, Unwrap(dep_coord.c.version))
                    ELSE RemoveVersions(st, dep_coord.c, ListVersions(st, dep_coord.c))
         IN  CleanRemoved(st1, removed_deps \ {dep_str})

(* main, ensure_dirs and Commands::Del: read the lockfile (the command     *)
(* stops when there is none), remove, write the lockfile, and remove the   *)
(* artifacts of the keys that left the lockfile.                           *)
Remove(input) ==
    /\ UNCHANGED aside
    /\ pc = "idle"
    /\ ops < MaxOps
    /\ CoordinateParse(input).ok
    /\ IsSome(files.path)
    /\ LockfileRead(files.path).ok
    /\ LockfileRead(files.path).lock.deps # EmptyMap
    /\ ops' = ops + 1
    /\ LET coord == CoordinateParse(input).c
           before == LockfileRead(files.path).lock
           after == RemoveFrom(coord, before)
           removed_deps == (DOMAIN before.deps) \ (DOMAIN after.deps)
       IN  /\ lockfile' = after
           /\ files' = [files EXCEPT !.path = Some(ToStringPretty(after))]
           /\ store' = CleanRemoved(EnsureDirs(store), removed_deps)
           /\ calls' = NoCalls
           /\ hist' = Push(Call("remove", TRUE, NoRun, NewGraph, after, before,
                                NoCalls, coord))
    /\ UNCHANGED << up, pc, run, graph, queue, seen, cur, deps, todo, merges >>

(* Repository::new on a directory that holds nothing yet. *)
NewRepository ==
    /\ UNCHANGED << aside, files >>
    /\ pc = "idle"
    /\ ops < MaxOps
    /\ store.files # EmptyMap
    /\ ops' = ops + 1
    /\ store' = EmptyStore
    /\ UNCHANGED << up, lockfile, pc, run, graph, queue, seen, cur, deps, todo, calls,
                    merges, hist >>

(* In these calls every store_artifact runs to completion. *)
Next ==
    \/ \E input \in AddInputs : Add(input)
    \/ ResolveVisit
    \/ ResolveDep
    \/ ResolveReturn
    \/ MergeBegin
    \/ \E coord \in todo : MergeEntry(coord)
    \/ MergeReturn
    \/ \E input \in DelInputs : Remove(input)
    \/ NewRepository

Spec == Init /\ [][Next]_vars

(***************************************************************************)
(* repository.rs, store_artifact step by step: create_dir_all, then        *)
(* fs::write, which creates or truncates the file at the artifact's path   *)
(* and writes the content into it piece by piece.  The call can end early: *)
(* a write fails (the error propagates) or the process is stopped.         *)
(***************************************************************************)

(* Bound: the store_artifact calls made. *)
MaxStores == 3

StoreCoords == { Coord("A"), Coord("B") }
StoreVersion == V3(1, 8, 0)

(* The contents a caller may hand to store_artifact for a jar: the jar the  *)
(* registry serves, and other bytes.                                       *)
StoreContents(coord) ==
    { JarBytes(Repositories[1], coord.name, StoreVersion), << 80, 75 >> }

(* fs::write opens the file: created empty, or truncated. *)
StoreBegin(coord, content) ==
    /\ UNCHANGED << client, files, lockwriter, lastcall, pruning >>
    /\ wr = None
    /\ ops < MaxStores
    /\ ops' = ops + 1
    /\ LET path == GetArtifactPath(coord, VersionToString(ParseVersion(StoreVersion).v),
                                   "Binary")
       IN  /\ store' = [files |-> Put(store.files, path, << >>),
                        dirs |-> store.dirs \cup Ancestors(FileDir(path))]
           /\ wr' = Some([path |-> path, content |-> content])
           /\ handed' = Put(handed, path,
                            (IF path \in DOMAIN handed THEN handed[path] ELSE {})
                                \cup {content})

(* write_all: the next piece of the content reaches the file. *)
StoreWrite ==
    /\ UNCHANGED << client, files, lockwriter, lastcall, pruning >>
    /\ wr # None
    /\ LET w == Unwrap(wr)
           n == Len(store.files[w.path])
       IN  /\ n < Len(w.content)
           /\ store' = [store EXCEPT !.files[w.path] = Append(@, w.content[n + 1])]
    /\ UNCHANGED << wr, handed, ops >>

(* store_artifact returns Ok. *)
StoreReturn ==
    /\ UNCHANGED << client, files, lockwriter, lastcall, pruning >>
    /\ wr # None
    /\ Len(store.files[Unwrap(wr).path]) = Len(Unwrap(wr).content)
    /\ wr' = None
    /\ UNCHANGED << store, handed, ops >>

(* The call ends before the content is written: an I/O error, or the       *)
(* process is stopped.                                                     *)
StoreInterrupted ==
    /\ UNCHANGED << client, files, lockwriter, lastcall, pruning >>
    /\ wr # None
    /\ Len(store.files[Unwrap(wr).path]) < Len(Unwrap(wr).content)
    /\ wr' = None
    /\ UNCHANGED << store, handed, ops >>

StoreNext ==
    \/ \E coord \in StoreCoords : \E content \in StoreContents(coord) :
          StoreBegin(coord, content)
    \/ StoreWrite
    \/ StoreReturn
    \/ StoreInterrupted

SpecStore == Init /\ [][StoreNext]_vars

(***************************************************************************)
(* repository.rs, calls of store_artifact (run to completion) and          *)
(* remove_artifacts on one store, for coordinates that share directories:  *)
(* g:A and g:B share g, g:h and g.h:A share g/h.                           *)
(***************************************************************************)

DirCoords ==
    { Coordinate(<<"g">>, "A", None), Coordinate(<<"g">>, "B", None),
      Coordinate(<<"g">>, "h", None), Coordinate(<<"g", "h">>, "A", None) }

DirVersions == { V3(1, 0, 0), V3(1, 8, 0) }

DirKinds == { "Binary", "Metadata" }

DirContent == << 80, 75 >>

DirStore(coord, version, kind) ==
    /\ UNCHANGED << client, files, writer, lockwriter, pruning >>
    /\ ops < MaxStores
    /\ ops' = ops + 1
    /\ store' = StoreArtifact(store, coord, version, kind, DirContent)
    /\ UNCHANGED recent
    /\ res' = [op |-> "store_artifact"]

DirRemove(coord, version) ==
    /\ UNCHANGED << client, files, writer, lockwriter, pruning >>
    /\ store' = RemoveArtifacts(store, coord, version)
    /\ UNCHANGED recent
    /\ res' = [op |-> "remove_artifacts", coord |-> coord, version |-> version,
               before |-> store]
    /\ UNCHANGED ops

DirsNext ==
    \/ \E coord \in DirCoords : \E version \in DirVersions : \E kind \in DirKinds :
          DirStore(coord, version, kind)
    \/ \E coord \in DirCoords : \E version \in DirVersions : DirRemove(coord, version)

SpecDirs == Init /\ [][DirsNext]_vars

(***************************************************************************)
(* repository.rs and main.rs, the same calls with list_versions and with   *)
(* the loop of Del that removes every version list_versions returns for a  *)
(* coordinate.  The directory of g.h:A, g/h/A, lies in the directory of    *)
(* g:h, g/h.                                                               *)
(***************************************************************************)

(* list_versions, called alone *)
DirList(coord) ==
    /\ UNCHANGED << client, files, writer, lockwriter, pruning >>
    /\ UNCHANGED << store, ops, recent >>
    /\ res' = [op |-> "list_versions", coord |-> coord,
               result |-> ListVersions(store, coord)]

(* `for version in repo.list_versions(&dep_coord)? { repo.remove_artifacts(..) }` *)
DirRemoveListed(coord) ==
    /\ UNCHANGED << client, files, writer, lockwriter, pruning >>
    /\ UNCHANGED << ops, recent >>
    /\ store' = RemoveVersions(store, coord, ListVersions(store, coord))
    /\ res' = [op |-> "remove_listed", coord |-> coord, before |-> store]

ListNext ==
    \/ \E coord \in DirCoords : \E version \in DirVersions : \E kind \in DirKinds :
          DirStore(coord, version, kind)
    \/ \E coord \in DirCoords : \E version \in DirVersions : DirRemove(coord, version)
    \/ \E coord \in DirCoords : DirList(coord)
    \/ \E coord \in DirCoords : DirRemoveListed(coord)

SpecList == Init /\ [][ListNext]_vars

(***************************************************************************)
(* repository.rs, calls of store_artifact (run to completion),             *)
(* remove_artifacts, has_artifact and load_artifact on one store, in any   *)
(* order, for two coordinates with a jar and a pom each.                   *)
(***************************************************************************)

RepoCoords == { Coordinate(<<"g">>, "A", None), Coordinate(<<"g", "h">>, "A", None) }

RepoVersions == { V3(1, 0, 0) }

RepoContents == { << 80, 75 >>, << 60 >> }

Artifact(coord, version, kind) == [kind |-> kind, version |-> version, coord |-> coord]

Artifacts ==
    { Artifact(coord, version, kind) :
          coord \in RepoCoords, version \in RepoVersions, kind \in DirKinds }

RepoStore(a, content) ==
    /\ UNCHANGED << client, files, writer, lockwriter, pruning >>
    /\ ops < MaxStores
    /\ ops' = ops + 1
    /\ store' = StoreArtifact(store, a.coord, a.version, a.kind, content)
    /\ res' = [op |-> "store_artifact", a |-> a, content |-> content, before |-> store]
    /\ recent' = Put(recent, a, Some(content))

RepoRemove(coord, version) ==
    /\ UNCHANGED << client, files, writer, lockwriter, pruning, ops >>
    /\ store' = RemoveArtifacts(store, coord, version)
    /\ res' = [op |-> "remove_artifacts", coord |-> coord, version |-> version,
               before |-> store]
    /\ recent' = [a \in DOMAIN recent |->
                     IF a.coord = coord /\ a.version = version THEN None ELSE recent[a]]

RepoHas(a) ==
    /\ UNCHANGED << client, store, files, writer, lockwriter, pruning, ops, recent >>
    /\ res' = [op |-> "has_artifact", a |-> a,
               out |-> HasArtifact(store, a.coord, a.version, a.kind), before |-> store]

RepoLoad(a) ==
    /\ UNCHANGED << client, store, files, writer, lockwriter, pruning, ops, recent >>
    /\ res' = [op |-> "load_artifact", a |-> a,
               out |-> TryLoadArtifact(store, a.coord, a.version, a.kind),
               before |-> store]

RepoNext ==
    \/ \E a \in Artifacts : \E content \in RepoContents : RepoStore(a, content)
    \/ \E coord \in RepoCoords : \E version \in RepoVersions : RepoRemove(coord, version)
    \/ \E a \in Artifacts : RepoHas(a)
    \/ \E a \in Artifacts : RepoLoad(a)

SpecRepo == Init /\ [][RepoNext]_vars

(***************************************************************************)
(* prune.rs, mark_tree call by call on one DependencyPruner, over          *)
(* lockfiles whose PackageInfo.deps form a self-reference, a cycle, a      *)
(* diamond closed into a cycle, and a list with a string that is no        *)
(* coordinate and a coordinate that is no key.  The stack holds a frame    *)
(* per mark_tree call under way: the coordinate, whether the call is past  *)
(* its visited test, and the rest of the deps it loops over.               *)
(***************************************************************************)

MaxMarks == 2

PruneEntry(list) == PackageInfo(V3(1, 0, 0), "MavenCentral", Integrity(<< 80, 75 >>), list)

PruneLock(entries) == [version |-> 1, deps |-> entries]

PruneLocks ==
    { PruneLock(Put(EmptyMap, <<NS, "P">>, PruneEntry(<< <<NS, "P">> >>))),
      PruneLock(Put(Put(EmptyMap, <<NS, "P">>, PruneEntry(<< <<NS, "Q">> >>)),
                    <<NS, "Q">>, PruneEntry(<< <<NS, "P">> >>))),
      PruneLock(Put(Put(Put(EmptyMap,
                    <<NS, "P">>, PruneEntry(<< <<NS, "Q">>, <<NS, "R">> >>)),
                    <<NS, "Q">>, PruneEntry(<< <<NS, "R">> >>)),
                    <<NS, "R">>, PruneEntry(<< <<NS, "P">> >>))),
      PruneLock(Put(Put(EmptyMap,
                    <<NS, "P">>, PruneEntry(<< <<NS, "Q">>, <<NS, "M", "x", "y">>,
                                               <<NS, "M">> >>)),
                    <<NS, "Q">>, PruneEntry(<< >>))) }

PruneCoords == { Coord("P"), Coord("Q"), Coord("R") }

Frame(coord, entered, rest) == [coord |-> coord, entered |-> entered, rest |-> rest]

Pop(stack) == SubSeq(stack, 1, Len(stack) - 1)

(* `!self.visited.insert(coord.clone())`: the coordinate was visited. *)
NeverVisited(pruner, coord) == FALSE
AlreadyVisited(pruner, coord) == coord \in pruner.visited

(* mark_tree is called on the pruner, for a lockfile; every call on one    *)
(* pruner is given the same lockfile.                                      *)
MarkTreeCall(lock, coord, for_removed) ==
    /\ UNCHANGED << client, store, files, writer, lockwriter, lastcall, ops >>
    /\ pr.stack = << >>
    /\ pr.marks < MaxMarks
    /\ pr.marks = 0 \/ lock = pr.lock
    /\ pr' = [pr EXCEPT !.lock = lock, !.marks = @ + 1, !.for_removed = for_removed,
                        !.visits = EmptyMap,
                        !.stack = << Frame(coord, FALSE, << >>) >>]

(* mark_tree up to its loop: return when the coordinate was visited, else  *)
(* record and mark it and take the deps of its lockfile entry.             *)
MarkTreeEnter ==
    /\ UNCHANGED << client, store, files, writer, lockwriter, lastcall, ops >>
    /\ pr.stack # << >>
    /\ ~pr.stack[Len(pr.stack)].entered
    /\ LET coord == pr.stack[Len(pr.stack)].coord
           key == CoordToString(coord)
           count == IF coord \in DOMAIN pr.visits THEN pr.visits[coord] ELSE 0
       IN  IF AlreadyVisited(pr.pruner, coord)
           THEN pr' = [pr EXCEPT !.stack = Pop(@)]
           ELSE pr' = [pr EXCEPT
                    !.pruner = [@ EXCEPT
                        !.visited = @ \cup {coord},
                        !.marked_from_removed =
                            IF pr.for_removed THEN @ \cup {coord} ELSE @,
                        !.marked_from_remaining =
                            IF pr.for_removed THEN @ ELSE @ \cup {coord}],
                    !.visits = Put(@, coord, count + 1),
                    !.stack = Append(Pop(@),
                        Frame(coord, TRUE,
                              IF key \in DOMAIN pr.lock.deps THEN pr.lock.deps[key].deps
                              ELSE << >>))]

(* mark_tree, one turn of `for dep_coord in &pkg_info.deps`: a string that *)
(* parses starts the inner mark_tree call.                                 *)
MarkTreeLoop ==
    /\ UNCHANGED << client, store, files, writer, lockwriter, lastcall, ops >>
    /\ pr.stack # << >>
    /\ pr.stack[Len(pr.stack)].entered
    /\ pr.stack[Len(pr.stack)].rest # << >>
    /\ LET top == pr.stack[Len(pr.stack)]
           dep == CoordinateParse(Head(top.rest))
           below == Append(Pop(pr.stack), [top EXCEPT !.rest = Tail(@)])
       IN  pr' = [pr EXCEPT !.stack = IF dep.ok THEN Append(below, Frame(dep.c, FALSE, << >>))
                                     ELSE below]

(* mark_tree returns after its loop. *)
MarkTreeReturn ==
    /\ UNCHANGED << client, store, files, writer, lockwriter, lastcall, ops >>
    /\ pr.stack # << >>
    /\ pr.stack[Len(pr.stack)].entered
    /\ pr.stack[Len(pr.stack)].rest = << >>
    /\ pr' = [pr EXCEPT !.stack = Pop(@)]

MarkTreeRuns == MarkTreeEnter \/ MarkTreeLoop \/ MarkTreeReturn

PruneNext ==
    \/ \E lock \in PruneLocks : \E coord \in PruneCoords : \E for_removed \in BOOLEAN :
          MarkTreeCall(lock, coord, for_removed)
    \/ MarkTreeEnter
    \/ MarkTreeLoop
    \/ MarkTreeReturn

SpecPrune == Init /\ [][PruneNext]_vars

(* A mark_tree call under way is not held up: the thread runs. *)
SpecPruneLive == SpecPrune /\ WF_vars(MarkTreeRuns)

(***************************************************************************)
(* resolver.rs, DependencyResolver::remove pass by pass on its pruner: the *)
(* removed pass, then a turn of the loop over the lockfile's keys (in the  *)
(* order the HashMap iterates) at a time, then the removals.  pr.pass      *)
(* tells what comes next.                                                  *)
(***************************************************************************)

(* DependencyPruner::new; the keys are taken in the order of iteration. *)
RemoveCall(lock, coord, order) ==
    /\ UNCHANGED << client, store, files, writer, lockwriter, lastcall, ops >>
    /\ pr = NoPrune
    /\ pr' = [NoPrune EXCEPT !.lock = lock, !.root = Some(coord), !.keys = order,
                             !.pass = "removed"]

(* pruner.mark_tree(&coord, lockfile, true) *)
RemovedPass ==
    /\ UNCHANGED << client, store, files, writer, lockwriter, lastcall, ops >>
    /\ pr.pass = "removed"
    /\ pr' = [pr EXCEPT !.pruner = MarkTree(@, Unwrap(pr.root), pr.lock, TRUE),
                        !.pass = "retained"]

(* Whether the turn of the loop for the key calls mark_tree. *)
StartsPass(coord_str, coord) ==
    CoordinateParse(coord_str).ok /\ CoordinateParse(coord_str).c # coord

(* One turn of `for (coord_str, _) in lockfile.deps.iter()`. *)
RetainedPass ==
    /\ UNCHANGED << client, store, files, writer, lockwriter, lastcall, ops >>
    /\ pr.pass = "retained"
    /\ pr.keys # << >>
    /\ pr' = [pr EXCEPT
                !.pruner = IF StartsPass(Head(pr.keys), Unwrap(pr.root))
                           THEN MarkTree(@, Unwrap(pr.root), pr.lock, FALSE)
                           ELSE @,
                !.keys = Tail(@)]

(* The removals after the loop; remove returns Ok. *)
RemoveDone ==
    /\ UNCHANGED << client, store, files, writer, lockwriter, ops, recent >>
    /\ pr.pass = "retained"
    /\ pr.keys = << >>
    /\ pr' = [pr EXCEPT !.pass = "done"]
    /\ res' = [op |-> "remove",
               lock |-> [pr.lock EXCEPT !.deps =
                            DropAll(Drop(@, CoordToString(Unwrap(pr.root))),
                                    { CoordToString(c) : c \in GetRemovable(pr.pruner) })]]

RemoveNext ==
    \/ \E lock \in PruneLocks : \E coord \in PruneCoords :
          \E order \in Orders(DOMAIN lock.deps) : RemoveCall(lock, coord, order)
    \/ RemovedPass
    \/ RetainedPass
    \/ RemoveDone

SpecRemove == Init /\ [][RemoveNext]_vars

(***************************************************************************)
(* main.rs, Add commands alone, while the registries may stop answering    *)
(* and the command may be cancelled: the process stops at an await of      *)
(* resolve or merge_graph, and what it held in memory is gone.             *)
(***************************************************************************)

(* The registries stop answering. *)
Outage ==
    /\ UNCHANGED << aside, files, store, ops >>
    /\ up # {}
    /\ up' = {}
    /\ UNCHANGED << lockfile, pc, run, graph, queue, seen, cur, deps, todo, calls,
                    merges, hist >>

(* The Add command is cancelled between two steps of resolve or of         *)
(* merge_graph.                                                            *)
Cancel ==
    /\ UNCHANGED << aside, files, store, ops >>
    /\ pc \in { "resolve", "merge" }
    /\ pc' = "idle"
    /\ graph' = NewGraph
    /\ queue' = << >>
    /\ seen' = {}
    /\ deps' = << >>
    /\ todo' = {}
    /\ cur' = NoCur
    /\ merges' = 0
    /\ calls' = NoCalls
    /\ lockfile' = NewLockfile
    /\ hist' = Push(Call("cancel", FALSE, NoRun, NewGraph, NewLockfile, NewLockfile,
                         NoCalls, run.root))
    /\ UNCHANGED << up, run >>

(* The coordinate strings given to these Add commands. *)
CancelInputs == { <<NS, "A", V2(1, 0)>>, <<NS, "D">> }

AddNext ==
    \/ \E input \in CancelInputs : Add(input)
    \/ ResolveVisit
    \/ ResolveDep
    \/ ResolveReturn
    \/ MergeBegin
    \/ \E coord \in todo : MergeEntry(coord)
    \/ MergeReturn
    \/ Outage
    \/ Cancel

SpecAdd == Init /\ [][AddNext]_vars

(***************************************************************************)
(* main.rs, Add and Del commands, each of which may be stopped at any of   *)
(* its steps: between two steps of resolve or merge_graph (Cancel), while  *)
(* store_artifact writes a jar, or while Del removes artifacts.  R at      *)
(* 0.5.0 needs S, which needs R again; T needs nothing.                    *)
(***************************************************************************)

(* The coordinate strings given to these Add and Del commands. *)
StoppedAdds == { <<NS, "R", V3(0, 5, 0)>>, <<NS, "T", V3(1, 0, 0)>> }
StoppedDels == { <<NS, "R">>, <<NS, "T", V3(1, 0, 0)>> }

(* The Add command is stopped while resolve stores the jar it downloaded:  *)
(* fs::write has created the file at the artifact's path and written the   *)
(* first n bytes of the jar into it.                                       *)
StoreStopped ==
    /\ UNCHANGED << aside, files, ops >>
    /\ pc = "resolve"
    /\ deps = << >>
    /\ queue # << >>
    /\ LET item == Head(queue)
           version == VersionToString(item.version)
           jar == DownloadJar(up, item.coord, version)
       IN  /\ SeenKey(item.coord, item.version) \notin seen
           /\ ~HasArtifact(store, item.coord, version, "Binary")
           /\ jar.ok
           /\ \E n \in 0..(Len(jar.bytes) - 1) :
                 store' = StoreArtifact(store, item.coord, version, "Binary",
                                        SubSeq(jar.bytes, 1, n))
    /\ pc' = "idle"
    /\ graph' = NewGraph
    /\ queue' = << >>
    /\ seen' = {}
    /\ cur' = NoCur
    /\ merges' = 0
    /\ calls' = NoCalls
    /\ hist' = Push(Call("cancel", FALSE, NoRun, NewGraph, NewLockfile, NewLockfile,
                         NoCalls, run.root))
    /\ UNCHANGED << up, run, lockfile, deps, todo >>

(* The Del command is stopped after it has written the lockfile, in its    *)
(* loop over removed_deps: the artifacts of the keys in done are removed,  *)
(* those of the other keys are not.                                        *)
RemoveStopped(input) ==
    /\ UNCHANGED aside
    /\ pc = "idle"
    /\ ops < MaxOps
    /\ CoordinateParse(input).ok
    /\ IsSome(files.path)
    /\ LockfileRead(files.path).ok
    /\ LockfileRead(files.path).lock.deps # EmptyMap
    /\ ops' = ops + 1
    /\ LET coord == CoordinateParse(input).c
           before == LockfileRead(files.path).lock
           after == RemoveFrom(coord, before)
           removed_deps == (DOMAIN before.deps) \ (DOMAIN after.deps)
       IN  /\ files' = [files EXCEPT !.path = Some(ToStringPretty(after))]
           /\ \E done \in (SUBSET removed_deps) \ {removed_deps} :
                 store' = CleanRemoved(EnsureDirs(store), done)
           /\ hist' = Push(Call("cancel", FALSE, NoRun, NewGraph, NewLockfile, before,
                                NoCalls, coord))
    /\ lockfile' = NewLockfile
    /\ calls' = NoCalls
    /\ UNCHANGED << up, pc, run, graph, queue, seen, cur, deps, todo, merges >>

StoppedNext ==
    \/ \E input \in StoppedAdds : Add(input)
    \/ ResolveVisit
    \/ ResolveDep
    \/ ResolveReturn
    \/ MergeBegin
    \/ \E coord \in todo : MergeEntry(coord)
    \/ MergeReturn
    \/ \E input \in StoppedDels : Remove(input)
    \/ \E input \in StoppedDels : RemoveStopped(input)
    \/ Cancel
    \/ StoreStopped

SpecStopped == Init /\ [][StoppedNext]_vars

(***************************************************************************)
(* resolver.rs, resolve alone, for roots whose dependencies have no        *)
(* version that satisfies: F needs Z within [1.0,2.0) and Z is listed as   *)
(* 3.0.Final and 0.5.0, G needs W, which no registry lists, H needs B      *)
(* within [3.0,4.0); for A, which resolves; and for P, which needs Q       *)
(* within [1.0,2.0), listed as 1.0.Final and 1.5.0.                        *)
(***************************************************************************)

ResolveInputs ==
    { <<NS, "F", V3(1, 0, 0)>>, <<NS, "G", V3(1, 0, 0)>>, <<NS, "H", V3(1, 0, 0)>>,
      <<NS, "A", V2(1, 0)>>, <<NS, "P", V3(1, 0, 0)>> }

ResolveNext ==
    \/ \E input \in ResolveInputs : Add(input)
    \/ ResolveVisit
    \/ ResolveDep
    \/ ResolveReturn

SpecResolve == Init /\ [][ResolveNext]_vars

(***************************************************************************)
(* resolver.rs, resolve alone, for roots whose metadata closes a cycle (R  *)
(* needs S, and S needs R within [0.1,0.9), while R is listed as 1.0.0 and *)
(* 0.5.0), asks for a RELEASE (K needs N, listed as 2.0.0-rc and 1.0.0),   *)
(* or declares nothing but a test dependency (T) or nothing at all (B), or *)
(* reaches one coordinate twice at one depth (M needs U and V, U needs O   *)
(* within [1.0,2.0) and V needs O within [2.0,3.0), O is listed as 2.5.0   *)
(* and 1.5.0).                                                             *)
(***************************************************************************)

CycleInputs ==
    { <<NS, "R">>, <<NS, "R", V3(0, 5, 0)>>, <<NS, "K", V3(1, 0, 0)>>,
      <<NS, "T", V3(1, 0, 0)>>, <<NS, "B", V3(1, 8, 0)>>, <<NS, "M", V3(1, 0, 0)>> }

CycleNext ==
    \/ \E input \in CycleInputs : Add(input)
    \/ ResolveVisit
    \/ ResolveDep
    \/ ResolveReturn

SpecCycle == Init /\ [][CycleNext]_vars

(***************************************************************************)
(* version.rs, calls made alone: parsing a version string, displaying the  *)
(* parsed version and parsing it again, comparing two versions, matching a *)
(* version against a requirement.  The functions keep nothing between two  *)
(* calls, so a behaviour makes one call.                                   *)
(***************************************************************************)

MaxNumber == 1
MaxFields == 4

(* The qualifiers "", "a", "ab" and "b". *)
Qualifiers == { << >>, << 97 >>, << 97, 98 >>, << 98 >> }
OptQualifiers == { None } \cup { Some(q) : q \in Qualifiers }

Fields == { EmptyField, -1 } \cup (0..MaxNumber)
VersionStrings ==
    { VStr(nums, q) : nums \in UNION { [1..n -> Fields] : n \in 1..MaxFields },
                      q \in OptQualifiers }

Versions ==
    { MavenVersion(major, minor, patch, q) :
          major \in 0..MaxNumber, minor \in 0..MaxNumber, patch \in 0..MaxNumber,
          q \in OptQualifiers }

RangeVersions ==
    { MavenVersion(1, minor, 0, q) : minor \in 0..MaxNumber, q \in { None, Some(<< 97 >>) } }
RangeBounds == { None } \cup { Some(v) : v \in RangeVersions }
Requirements ==
    { Range(min, minInc, max, maxInc) :
          min \in RangeBounds, minInc \in BOOLEAN, max \in RangeBounds, maxInc \in BOOLEAN }
    \cup { Exact(v) : v \in RangeVersions }
    \cup { Latest, Release }

CallParse(s) ==
    /\ res = NoRes
    /\ UNCHANGED << client, store, files, writer, lockwriter, pruning, ops >>
    /\ UNCHANGED recent
    /\ res' = [op |-> "parse", s |-> s, out |-> ParseVersion(s)]

CallToString(s) ==
    /\ res = NoRes
    /\ ParseVersion(s).ok
    /\ UNCHANGED << client, store, files, writer, lockwriter, pruning, ops >>
    /\ UNCHANGED recent
    /\ res' = [op |-> "to_string", s |-> s, v |-> ParseVersion(s).v,
               text |-> VersionToString(ParseVersion(s).v),
               back |-> ParseVersion(VersionToString(ParseVersion(s).v))]

CallCmp(a, b) ==
    /\ res = NoRes
    /\ UNCHANGED << client, store, files, writer, lockwriter, pruning, ops >>
    /\ UNCHANGED recent
    /\ res' = [op |-> "cmp", a |-> a, b |-> b, ab |-> VersionCmp(a, b),
               ba |-> VersionCmp(b, a), eq |-> VersionEq(a, b)]

CallMatches(req, w) ==
    /\ res = NoRes
    /\ UNCHANGED << client, store, files, writer, lockwriter, pruning, ops >>
    /\ UNCHANGED recent
    /\ res' = [op |-> "matches", req |-> req, w |-> w, out |-> Matches(req, w)]

(* The inputs to choose from: none once the call is made. *)
Asked(inputs) == IF res = NoRes THEN inputs ELSE {}

VersionNext ==
    \/ \E s \in Asked(VersionStrings) : CallParse(s)
    \/ \E s \in Asked(VersionStrings) : CallToString(s)
    \/ \E a \in Asked(Versions) : \E b \in Versions : CallCmp(a, b)
    \/ \E req \in Asked(Requirements) : \E w \in RangeVersions : CallMatches(req, w)

SpecVersion == Init /\ [][VersionNext]_vars

(***************************************************************************)
(* download.rs, calls on a RepositoryManager alone.  Each call is made on  *)
(* a list of registries (the list RepositoryManager::new builds, and lists *)
(* with a second registry, Mirror, before or after MavenCentral), while    *)
(* some of the registries answer and the others fail.                      *)
(***************************************************************************)

Registries == { "MavenCentral", "Mirror" }

RegistryLists ==
    { Repositories, << "Mirror" >>, << "MavenCentral", "Mirror" >>,
      << "Mirror", "MavenCentral" >> }

ManagerCoords == { Coord("A"), Coord("B"), Coord("C"), Coord("W") }

ManagerVersions == { V3(1, 0, 0), V3(1, 8, 0) }

(* A manager call with its result, as res keeps it. *)
ManagerCall(op, repositories, answering, coord, version, result) ==
    [op |-> op, repositories |-> repositories, up |-> answering,
     coord |-> coord, version |-> version, result |-> result]

CallSearchVersions(repositories, answering, coord) ==
    /\ UNCHANGED << client, store, files, writer, lockwriter, pruning, ops >>
    /\ UNCHANGED recent
    /\ res' = ManagerCall("search_versions", repositories, answering, coord, None,
                          SearchVersionsIn(repositories, answering, coord))

CallDownloadJar(repositories, answering, coord, version) ==
    /\ UNCHANGED << client, store, files, writer, lockwriter, pruning, ops >>
    /\ UNCHANGED recent
    /\ res' = ManagerCall("download_jar", repositories, answering, coord, Some(version),
                          DownloadJarIn(repositories, answering, coord, version))

CallDownloadMetadata(repositories, answering, coord, version) ==
    /\ UNCHANGED << client, store, files, writer, lockwriter, pruning, ops >>
    /\ UNCHANGED recent
    /\ res' = ManagerCall("download_metadata", repositories, answering, coord,
                          Some(version),
                          DownloadMetadataIn(repositories, answering, coord, version))

CallFetchSourceRepo(repositories, answering, coord) ==
    /\ UNCHANGED << client, store, files, writer, lockwriter, pruning, ops >>
    /\ UNCHANGED recent
    /\ res' = ManagerCall("fetch_source_repo", repositories, answering, coord, None,
                          FetchSourceRepoIn(repositories, answering, coord))

ManagerNext ==
    \/ \E repositories \in RegistryLists : \E answering \in SUBSET Registries :
          \E coord \in ManagerCoords : CallSearchVersions(repositories, answering, coord)
    \/ \E repositories \in RegistryLists : \E answering \in SUBSET Registries :
          \E coord \in ManagerCoords : \E version \in ManagerVersions :
              CallDownloadJar(repositories, answering, coord, version)
    \/ \E repositories \in RegistryLists : \E answering \in SUBSET Registries :
          \E coord \in ManagerCoords : \E version \in ManagerVersions :
              CallDownloadMetadata(repositories, answering, coord, version)
    \/ \E repositories \in RegistryLists : \E answering \in SUBSET Registries :
          \E coord \in ManagerCoords : CallFetchSourceRepo(repositories, answering, coord)

SpecManager == Init /\ [][ManagerNext]_vars

(***************************************************************************)
(* lockfile.rs, Lockfile::write step by step: the temporary file is        *)
(* created, the text is written into it piece by piece and flushed, and    *)
(* persist renames it to the lockfile path.  The call can end early: a     *)
(* step fails (the NamedTempFile is dropped, which deletes the file) or    *)
(* the process is stopped (the temporary file stays).                      *)
(***************************************************************************)

(* Bound: the Lockfile::write calls made. *)
MaxWrites == 3

(* The lockfiles handed to write. *)
WriteInputs ==
    LET d == PackageInfo(V3(1, 0, 0), "MavenCentral",
                         Integrity(JarBytes("MavenCentral", "D", V3(1, 0, 0))),
                         << <<NS, "C">> >>)
        c == PackageInfo(V3(1, 0, 0), "MavenCentral",
                         Integrity(JarBytes("MavenCentral", "C", V3(1, 0, 0))), << >>)
    IN  { NewLockfile,
          [NewLockfile EXCEPT !.deps = Put(@, <<NS, "C">>, c)],
          [NewLockfile EXCEPT !.deps = Put(Put(@, <<NS, "C">>, c), <<NS, "D">>, d)] }

(* NamedTempFile::new_in and to_string_pretty. *)
WriteBegin(lock) ==
    /\ UNCHANGED << client, store, writer, lastcall, pruning >>
    /\ lw = None
    /\ ops < MaxWrites
    /\ ops' = ops + 1
    /\ files' = [files EXCEPT ![WriteTarget] = Some(NoText)]
    /\ lw' = Some([content |-> ToStringPretty(lock), before |-> files.path,
                   lock |-> lock])

(* write_all: the next piece of the text reaches the file. *)
WritePiece ==
    /\ UNCHANGED << client, store, writer, lastcall, pruning >>
    /\ lw # None
    /\ \E text \in NextPieces(Unwrap(files[WriteTarget]), Unwrap(lw).content) :
          files' = [files EXCEPT ![WriteTarget] = Some(text)]
    /\ UNCHANGED << lw, ops >>

(* flush and persist(path): the temporary file is renamed to the lockfile  *)
(* path; write returns Ok.                                                 *)
WritePersist ==
    /\ UNCHANGED << client, store, writer, pruning, recent >>
    /\ lw # None
    /\ files[WriteTarget] = Some(Unwrap(lw).content)
    /\ files' = [path |-> files[WriteTarget], temp |-> None]
    /\ lw' = None
    /\ res' = [op |-> "write", lock |-> Unwrap(lw).lock]
    /\ UNCHANGED ops

(* The call ends before persist: an error (the temporary file is deleted   *)
(* as the NamedTempFile is dropped) or the process is stopped (it stays).  *)
WriteInterrupted ==
    /\ UNCHANGED << client, store, writer, lastcall, pruning >>
    /\ lw # None
    /\ lw' = None
    /\ \/ files' = [files EXCEPT !.temp = None]
       \/ files' = files
    /\ UNCHANGED ops

WriteNext ==
    \/ \E lock \in WriteInputs : WriteBegin(lock)
    \/ WritePiece
    \/ WritePersist
    \/ WriteInterrupted

SpecWrite == Init /\ [][WriteNext]_vars

(***************************************************************************)
(* Properties                                                              *)
(***************************************************************************)

Keys(lock) == DOMAIN lock.deps

(* The coordinate strings reachable from the strings in S through          *)
(* PackageInfo.deps (S included).                                          *)
RECURSIVE ReachFrom(_, _)
ReachFrom(lock, S) ==
    LET next == S \cup UNION { Range1(lock.deps[k].deps) : k \in S \cap Keys(lock) }
    IN  IF next = S THEN S ELSE ReachFrom(lock, next)

(* No PackageInfo.deps names a string that is not a key. *)
Closed(lock) == \A k \in Keys(lock) : Range1(lock.deps[k].deps) \subseteq Keys(lock)

(* The last completed call removed a key of a closed lockfile that no      *)
(* other entry depended on (a root, as Add puts it there).                 *)
RemovedARoot ==
    /\ pc = "idle"
    /\ hist[1].op = "remove"
    /\ Closed(hist[1].before)
    /\ CoordToString(hist[1].coord) \in Keys(hist[1].before)
    /\ \A k \in Keys(hist[1].before) :
          CoordToString(hist[1].coord) \notin Range1(hist[1].before.deps[k].deps)

(* C1 (remove-safety): after remove(A) of a root A, every coordinate that  *)
(* was reachable from a key outside A's subtree (another root B and what   *)
(* it depends on) is still a key.                                          *)
C1_RemoveSafety ==
    RemovedARoot =>
        LET before == hist[1].before
            sub == ReachFrom(before, {CoordToString(hist[1].coord)})
        IN  \A k \in Keys(before) \ sub : ReachFrom(before, {k}) \subseteq Keys(lockfile)

(* C2 (closure): between calls, every coordinate named in a                *)
(* PackageInfo.deps of the lockfile is a key of the lockfile.              *)
C2_LockfileClosed == (pc = "idle" /\ hist[1].ok) => Closed(lockfile)

(* C3 (exclusive subtree): remove(A) deletes exactly A and the coordinates *)
(* reachable from A that no key outside A's subtree reaches.               *)
C3_ExclusiveSubtree ==
    RemovedARoot =>
        LET before == hist[1].before
            sub == ReachFrom(before, {CoordToString(hist[1].coord)})
            kept == ReachFrom(before, Keys(before) \ sub)
        IN  Keys(before) \ Keys(lockfile) = sub \ kept

(* The last completed call is a resolve that returned a graph. *)
Resolved == pc = "idle" /\ hist[1].op = "resolve" /\ hist[1].ok

(* The first recorded among the requirements of smallest depth. *)
Governing(reqs) ==
    reqs[CHOOSE i \in DOMAIN reqs :
            /\ \A j \in DOMAIN reqs : reqs[i][2] <= reqs[j][2]
            /\ \A j \in 1..(i - 1) : reqs[j][2] > reqs[i][2]][1]

TwoDepths(reqs) == \E i, j \in DOMAIN reqs : reqs[i][2] < reqs[j][2]

(* C4 (nearest wins): in a returned graph, a coordinate other than the     *)
(* root with requirements at two depths is resolved to a version that      *)
(* satisfies the requirement of smallest depth.                            *)
C4_NearestWins ==
    Resolved =>
        \A coord \in DOMAIN graph.requirements \ {run.root} :
            TwoDepths(graph.requirements[coord]) =>
                Matches(Governing(graph.requirements[coord]), graph.resolved[coord])

(* A returned graph where the nearer requirement won against a deeper one  *)
(* that the resolved version violates.                                     *)
C4_Witness ==
    /\ Resolved
    /\ \E coord \in DOMAIN graph.requirements \ {run.root} :
          LET reqs == graph.requirements[coord]
          IN  /\ TwoDepths(reqs)
              /\ \E j \in DOMAIN reqs : ~Matches(reqs[j][1], graph.resolved[coord])

(* The versions the registries offer for coord that satisfy req. *)
Satisfying(coord, req) ==
    { p.v : p \in { q \in { ParseVersion(v) : v \in SearchVersions(up, coord) } :
                     q.ok /\ Matches(req, q.v) } }

(* C5 (newest satisfying): in a returned graph every dependency is         *)
(* resolved to the greatest offered version that satisfies its nearest     *)
(* requirement.                                                            *)
C5_NewestSatisfying ==
    Resolved =>
        \A coord \in DOMAIN graph.requirements \ {run.root} :
            \A v \in Satisfying(coord, Governing(graph.requirements[coord])) :
                VersionCmp(v, graph.resolved[coord]) <= 0

(* The last two completed calls are successful resolves of the same root   *)
(* at the same version, the first of them on an empty store.               *)
ResolvedTwice ==
    /\ pc = "idle"
    /\ hist[1].op = "resolve" /\ hist[1].ok
    /\ hist[2].op = "resolve" /\ hist[2].ok
    /\ hist[1].root = hist[2].root
    /\ hist[1].version = hist[2].version
    /\ hist[2].fresh

(* C6 (cache idempotence): a second resolve on the store the first one     *)
(* filled downloads no jar and no metadata.                                *)
C6_SecondRunDownloadsNothing ==
    (ResolvedTwice /\ ~hist[1].fresh) =>
        hist[1].calls.jar = 0 /\ hist[1].calls.metadata = 0

(* C7 (determinism): two resolves of the same root and version, each on an *)
(* empty store, return equal resolved maps and equal edges.                *)
C7_SameGraph ==
    (ResolvedTwice /\ hist[1].fresh) =>
        /\ hist[1].graph.resolved = hist[2].graph.resolved
        /\ hist[1].graph.edges = hist[2].graph.edges

(* C8 (merge idempotence): a second merge_graph of the same graph leaves   *)
(* the lockfile as the first left it and makes no registry call: not while *)
(* it runs, and not when it has returned.                                  *)
C8_MergeIdempotent ==
    /\ (pc = "merge" /\ hist[1].op = "merge" /\ hist[1].ok /\ hist[1].graph = graph) =>
          lockfile = hist[1].lock /\ calls = NoCalls
    /\ (pc = "idle" /\ hist[1].op = "merge" /\ hist[1].ok
          /\ hist[2].op = "merge" /\ hist[2].ok /\ hist[1].graph = hist[2].graph) =>
          hist[1].lock = hist[2].lock /\ hist[1].calls = NoCalls

(* Two merges of a graph have returned; the first downloaded jars and      *)
(* filled the lockfile.                                                    *)
C8_Witness ==
    /\ pc = "idle"
    /\ hist[1].op = "merge" /\ hist[1].ok
    /\ hist[2].op = "merge" /\ hist[2].ok
    /\ hist[1].graph = hist[2].graph
    /\ hist[2].calls.jar >= 2
    /\ Cardinality(Keys(lockfile)) >= 2

(* C9 (key identity): between calls, every key of the lockfile is a        *)
(* namespace:name string, without a version field.                         *)
C9_KeysHaveNoVersion ==
    pc = "idle" => \A k \in Keys(lockfile) : Len(k) = 2

(* C10 (atomic store): when no store_artifact is under way, the file at an *)
(* artifact path holds a complete content that store_artifact was given    *)
(* for that path.                                                          *)
C10_NoPartialFile ==
    wr = None => \A path \in DOMAIN store.files : store.files[path] \in handed[path]

(* C11 (atomic lockfile write): every step of Lockfile::write, and an      *)
(* interruption at any step, leaves the file at the lockfile path as it    *)
(* was or replaces it by the complete text of the new lockfile; a reader   *)
(* never finds a partial text there.                                       *)
C11_WriteIsAtomic ==
    [][ \/ files'.path = files.path
        \/ IsSome(lw) /\ files'.path = Some(Unwrap(lw).content) ]_vars

(* A write was interrupted in the middle of the text, after an earlier     *)
(* write had put a lockfile at the path: the cut-short temporary file is   *)
(* there, and the path still reads as the earlier lockfile.                *)
C11_Witness ==
    /\ lw = None
    /\ IsSome(files.temp) /\ ~FromStr(Unwrap(files.temp)).ok
    /\ Unwrap(files.temp).deps # {}
    /\ IsSome(files.path) /\ LockfileRead(files.path).ok
    /\ LockfileRead(files.path).lock.deps # EmptyMap

(* The last call was remove_artifacts of a version whose directory was     *)
(* there, in a store whose root was there.                                 *)
RemovedArtifacts ==
    /\ res.op = "remove_artifacts"
    /\ Root \in res.before.dirs
    /\ VersionDir(res.coord, res.version) \in res.before.dirs

(* Whether directory d of store st holds nothing but directory v and what  *)
(* leads to it.                                                            *)
HeldOnly(st, d, v) ==
    /\ \A f \in DOMAIN st.files : IsUnder(d, FileDir(f)) => FileDir(f) = v
    /\ \A e \in st.dirs : IsUnder(d, e) => e \in Ancestors(v)

(* C12 (store cleanup): after remove_artifacts(coord, v) the version       *)
(* directory is gone, and so is every directory above it and below the     *)
(* root that held nothing but it; every file of another version or         *)
(* coordinate is still there with its content, and so are the directories  *)
(* it lies in.                                                             *)
C12_StoreCleanup ==
    RemovedArtifacts =>
        LET v == VersionDir(res.coord, res.version)
        IN  /\ v \notin store.dirs
            /\ \A f \in DOMAIN store.files : FileDir(f) # v
            /\ \A d \in Ancestors(v) \ {Root} :
                  HeldOnly(res.before, d, v) => d \notin store.dirs
            /\ \A f \in DOMAIN res.before.files :
                  FileDir(f) # v =>
                      /\ f \in DOMAIN store.files
                      /\ store.files[f] = res.before.files[f]
                      /\ Ancestors(FileDir(f)) \subseteq store.dirs

(* A version was removed whose coordinate directory held nothing else and  *)
(* went with it, while the namespace directory, shared with another        *)
(* coordinate, stayed.                                                     *)
C12_Witness ==
    /\ RemovedArtifacts
    /\ Dir(ToPath(res.coord), None) \notin store.dirs
    /\ Parent(Dir(ToPath(res.coord), None)) \in store.dirs
    /\ Parent(Dir(ToPath(res.coord), None)) # Root
    /\ store.files # EmptyMap

(* C13 (cleanup stops at the root): remove_artifacts never deletes the     *)
(* store root, also when it removes the last artifact of the store.        *)
C13_RootStays == RemovedArtifacts => Root \in store.dirs

(* The indices of the registries of the last manager call that would       *)
(* answer a download of the call's coordinate and version.                 *)
ServingIndices ==
    { i \in DOMAIN res.repositories :
        /\ res.repositories[i] \in res.up
        /\ Publishes(res.repositories[i], res.coord.name, Unwrap(res.version)) }

Least(S) == CHOOSE i \in S : \A j \in S : i <= j

(* C14 (registry fallback for downloads): download_jar and                 *)
(* download_metadata call the registries in list order, return what the    *)
(* first registry that succeeds answers, call no registry after it, and    *)
(* fail only when every registry of the list failed.                       *)
C14_DownloadFallback ==
    res.op \in { "download_jar", "download_metadata" } =>
        IF ServingIndices = {}
        THEN ~res.result.ok /\ res.result.contacted = res.repositories
        ELSE /\ res.result.ok
             /\ res.result.from = res.repositories[Least(ServingIndices)]
             /\ res.result.contacted =
                    SubSeq(res.repositories, 1, Least(ServingIndices))
             /\ res.op = "download_jar" =>
                    res.result.bytes = JarBytes(res.result.from, res.coord.name,
                                                Unwrap(res.version))
             /\ res.op = "download_metadata" =>
                    res.result.text = PomOf(res.coord.name, Unwrap(res.version))

(* A download fell back: the first registry of the list failed, the        *)
(* second answered, and both would have served the artifact.               *)
C14_Witness ==
    /\ res.op = "download_jar"
    /\ Len(res.repositories) = 2
    /\ \A i \in DOMAIN res.repositories :
          Publishes(res.repositories[i], res.coord.name, Unwrap(res.version))
    /\ res.repositories[1] \notin res.up
    /\ res.result.ok
    /\ res.result.from = res.repositories[2]

(* The indices of the registries of the last manager call whose search     *)
(* answers with a list that is not empty.                                  *)
ListingIndices ==
    { i \in DOMAIN res.repositories :
        /\ res.repositories[i] \in res.up
        /\ Listing(res.repositories[i], res.coord.name) # << >> }

(* C15 (origin registry): fetch_source_repo names the first registry, in   *)
(* list order, whose search returns a list that is not empty; a registry   *)
(* whose search succeeds with an empty list is skipped.                    *)
C15_OriginListsCoordinate ==
    res.op = "fetch_source_repo" /\ res.result.ok =>
        /\ ListingIndices # {}
        /\ res.result.name = res.repositories[Least(ListingIndices)]

(* C16 (network errors surface): when the search call fails on every       *)
(* registry of the list, search_versions returns an error.                 *)
C16_SearchSurfacesError ==
    /\ res.op = "search_versions"
    /\ \A i \in DOMAIN res.repositories : res.repositories[i] \notin res.up
    => ~res.result.ok

(* The poms the store holds, the coordinates they declare with scope       *)
(* "test", and the coordinates they declare otherwise.                     *)
StoredPoms == { store.files[f] : f \in { p \in DOMAIN store.files : p.file[3] = "pom" } }

IsTestScoped(d) == d.scope = Some("test")

OtherScoped(d) == ~IsTestScoped(d)

DeclaredTest ==
    UNION { { Coordinate(pom[i].group_id, pom[i].artifact_id, None) :
              i \in { j \in DOMAIN pom : IsTestScoped(pom[j]) } } : pom \in StoredPoms }

DeclaredOther ==
    UNION { { Coordinate(pom[i].group_id, pom[i].artifact_id, None) :
              i \in { j \in DOMAIN pom : OtherScoped(pom[j]) } } : pom \in StoredPoms }

(* Nothing of the resolution under way comes from coordinate c. *)
NoTraceOf(c) ==
    /\ c \notin DOMAIN graph.requirements
    /\ c \notin DOMAIN graph.resolved
    /\ \A k \in DOMAIN graph.edges : c \notin graph.edges[k]
    /\ \A i \in DOMAIN queue : queue[i].coord # c
    /\ \A i \in DOMAIN deps : deps[i].coordinate # c
    /\ \A f \in DOMAIN store.files : f.dir # ToPath(c)

(* The requests a visit hands on are the elements of the visited pom that  *)
(* are not test-scoped, all of them and in the pom's order.                *)
EmitsOthers(pom, requests) ==
    LET kept == SelectSeq(pom, OtherScoped)
    IN  /\ Len(requests) = Len(kept)
        /\ \A i \in DOMAIN kept :
              /\ requests[i].coordinate =
                    Coordinate(kept[i].group_id, kept[i].artifact_id, None)
              /\ requests[i].scope = kept[i].scope

(* C17 (test-scope exclusion): a dependency declared with scope "test" in  *)
(* a visited pom never becomes a request: it leaves no requirement, edge,  *)
(* resolution, queue item or stored artifact; the dependencies of every    *)
(* other scope, or of none, are all handed on.                             *)
C17_TestScopeExcluded ==
    [][ /\ \A c \in DeclaredTest' \ DeclaredOther' : NoTraceOf(c)'
        /\ (pc = "resolve" /\ seen' # seen /\ seen' # {}) =>
              EmitsOthers(LoadArtifact(store', Head(queue).coord,
                                       VersionToString(Head(queue).version), "Metadata"),
                          deps') ]_vars

(* A pom with a test-scoped and a compile-scoped dependency was visited,   *)
(* and the resolution that visited it returned its graph.                  *)
C17_Witness ==
    /\ hist[1].op = "resolve" /\ hist[1].ok
    /\ pc = "idle"
    /\ \E pom \in StoredPoms :
          /\ \E i \in DOMAIN pom : IsTestScoped(pom[i])
          /\ \E i \in DOMAIN pom :
                /\ pom[i].scope = Some("compile")
                /\ Coordinate(pom[i].group_id, pom[i].artifact_id, None)
                      \in DOMAIN graph.resolved
    /\ DeclaredTest # {}
    /\ \A c \in DeclaredTest : c \notin DOMAIN graph.resolved

(* The graph with the requirement of the request resolve handles next.     *)
WithNextRequirement ==
    AddRequirement(graph, Head(deps).coordinate, Head(deps).version_req, Head(deps).depth)

(* No candidate the search returns for the next request is a version that  *)
(* satisfies the nearest requirement of its coordinate.                    *)
NoneSatisfies ==
    \A v \in SearchVersions(up, Head(deps).coordinate) :
        ~ /\ ParseVersion(v).ok
          /\ CheckVersionCompatibility(WithNextRequirement, Head(deps).coordinate,
                                       ParseVersion(v).v)

(* C18 (no compatible version): when no candidate for a child coordinate   *)
(* satisfies its nearest requirement, also when there is no candidate,     *)
(* resolve fails with the error that names the coordinate and the          *)
(* requirement, returns no graph and enqueues nothing for the child.       *)
C18_NoCompatibleVersion ==
    [][ (pc = "resolve" /\ deps # << >> /\ NoneSatisfies) =>
          /\ pc' = "idle"
          /\ hist'[1].op = "resolve" /\ ~hist'[1].ok
          /\ hist'[1].error.kind = "no compatible version found"
          /\ hist'[1].error.coord = CoordToString(Head(deps).coordinate)
          /\ hist'[1].error.req \in
                { Head(deps).version_req,
                  NearestReq(WithNextRequirement.requirements[Head(deps).coordinate]) }
          /\ graph' = NewGraph
          /\ queue' = << >> ]_vars

(* The keys the last Del command took out of the lockfile. *)
RemovedKeys == (DOMAIN hist[1].before.deps) \ (DOMAIN hist[1].lock.deps)

(* C20 (Del cleans the store): after a Del command the store holds no      *)
(* version directory and no file of a coordinate whose key left the        *)
(* lockfile, with or without a version in the key, and no empty directory  *)
(* below the root.                                                         *)
C20_DelCleansStore ==
    (pc = "idle" /\ hist[1].op = "remove" /\ hist[1].ok) =>
        /\ \A k \in RemovedKeys :
              /\ \A d \in store.dirs :
                    IsSome(d.version) => d.path # ToPath(CoordinateParse(k).c)
              /\ \A f \in DOMAIN store.files : f.dir # ToPath(CoordinateParse(k).c)
        /\ \A d \in store.dirs \ {Root} : ~IsDirEmpty(store, d)

(* The step is the return of a merge_graph that succeeded, with the write  *)
(* of the merged lockfile.                                                 *)
MergedAndWritten ==
    /\ pc = "merge" /\ todo = {}
    /\ pc' = "idle"
    /\ hist'[1].op = "merge" /\ hist'[1].ok
    /\ files'.path = Some(ToStringPretty(lockfile))

(* C19 (no lockfile side effect on failure or cancellation): from the      *)
(* start of an Add command the files at the lockfile path stay as they     *)
(* are through every step of resolve and merge_graph, through their        *)
(* failure and through a cancellation; only the return of a merge_graph    *)
(* that succeeded changes the lockfile.  Until then the command only adds  *)
(* artifacts to the store.                                                 *)
C19_NoLockfileSideEffect ==
    [][ /\ files' = files \/ MergedAndWritten
        /\ \A f \in DOMAIN store.files :
              f \in DOMAIN store'.files /\ store'.files[f] = store.files[f] ]_vars

(* A merge_graph failed after it had inserted entries into the Lockfile in *)
(* memory, over a lockfile an earlier Add had written: the file still      *)
(* reads as that Add left it, and the store holds the artifacts fetched.   *)
C19_Witness ==
    /\ pc = "idle"
    /\ hist[1].op = "merge" /\ ~hist[1].ok
    /\ IsSome(files.path)
    /\ LockfileRead(files.path).ok
    /\ LockfileRead(files.path).lock.deps # EmptyMap
    /\ DOMAIN hist[1].lock.deps # DOMAIN LockfileRead(files.path).lock.deps
    /\ store.files # EmptyMap

(* C21 (pruner termination): a mark_tree call returns, whatever cycles the *)
(* deps of the lockfile form, and between its start and its return it goes *)
(* past the visited test at most once for each coordinate.                 *)
C21_MarkTreeTerminates ==
    /\ [](\A c \in DOMAIN pr.visits : pr.visits[c] <= 1)
    /\ (pr.stack # << >>) ~> (pr.stack = << >>)

(* A traversal of the lockfile whose deps close a cycle over three         *)
(* coordinates has returned, and has visited all three.                    *)
C21_Witness ==
    /\ pr.marks > 0
    /\ pr.stack = << >>
    /\ Cardinality(DOMAIN pr.visits) = 3
    /\ \E k \in DOMAIN pr.lock.deps : \E i \in DOMAIN pr.lock.deps[k].deps :
          CoordinateParse(pr.lock.deps[k].deps[i]).c \in DOMAIN pr.visits

(* The coordinate:version pair a key of resolve's seen set stands for:     *)
(* namespace, name and version.                                            *)
PairOf(key) == << key[1][1], key[1][2], key[2] >>

(* C22 (resolver termination on cycles): resolve fetches and parses each   *)
(* coordinate:version pair at most once, also when the metadata leads back *)
(* to the root: no pair is in the seen set under two keys.                 *)
C22_EachPairOnce ==
    \A k1 \in seen : \A k2 \in seen : PairOf(k1) = PairOf(k2) => k1 = k2

(* C23 (root resolution): in the graph resolve returns, the root has the   *)
(* version resolve was called with, whatever the dependencies asked of the *)
(* root coordinate; for a root that declares no dependency outside the     *)
(* test scope the graph resolves the root alone and has no edge.           *)
C23_RootResolution ==
    Resolved =>
        /\ hist[1].root \in DOMAIN hist[1].graph.resolved
        /\ hist[1].graph.resolved[hist[1].root] = ParseVersion(hist[1].version).v
        /\ SelectSeq(PomOf(hist[1].root.name, hist[1].version), OtherScoped) = << >> =>
              /\ DOMAIN hist[1].graph.resolved = { hist[1].root }
              /\ hist[1].graph.edges = EmptyMap

(* resolve returned a graph in which a dependency requires of the root     *)
(* coordinate what the root's version does not satisfy.                    *)
C23_Witness ==
    /\ Resolved
    /\ \E c \in DOMAIN hist[1].graph.requirements :
          /\ c = hist[1].root
          /\ ~Matches(NearestReq(hist[1].graph.requirements[c]),
                      hist[1].graph.resolved[hist[1].root])

(* C27 (Release excludes qualifiers): a coordinate whose nearest           *)
(* requirement is Release is never resolved to a version with a qualifier. *)
C27_ReleaseExcludesQualifiers ==
    \A c \in (DOMAIN graph.resolved) \cap (DOMAIN graph.requirements) :
        NearestReq(graph.requirements[c]).kind = "Release" =>
            ~IsSome(graph.resolved[c].qualifier)

(* The numeric parts of a are below those of b, (major, minor, patch)      *)
(* taken lexicographically; the numeric parts are the same.                *)
NumLess(a, b) ==
    \/ a.major < b.major
    \/ a.major = b.major /\ a.minor < b.minor
    \/ a.major = b.major /\ a.minor = b.minor /\ a.patch < b.patch
SameNums(a, b) == a.major = b.major /\ a.minor = b.minor /\ a.patch = b.patch

(* C24 (version order): the comparison is a total order (each pair is      *)
(* ordered one way, the reverse comparison gives the reverse, the order is *)
(* transitive) that says equal exactly when == does; it is lexicographic   *)
(* on (major, minor, patch); with the same numeric parts a version without *)
(* qualifier is greater than one with a qualifier, and two qualifiers      *)
(* compare as strings.                                                     *)
C24_VersionOrder ==
    res.op = "cmp" =>
        /\ res.ab \in { -1, 0, 1 }
        /\ res.ba = 0 - res.ab
        /\ (res.ab = 0) <=> res.eq
        /\ \A c \in Versions :
              (res.ab <= 0 /\ VersionCmp(res.b, c) <= 0) => VersionCmp(res.a, c) <= 0
        /\ NumLess(res.a, res.b) => res.ab = -1
        /\ NumLess(res.b, res.a) => res.ab = 1
        /\ (SameNums(res.a, res.b) /\ ~IsSome(res.a.qualifier) /\ IsSome(res.b.qualifier))
              => res.ab = 1
        /\ (SameNums(res.a, res.b) /\ IsSome(res.a.qualifier) /\ IsSome(res.b.qualifier))
              => /\ StrLess(Unwrap(res.a.qualifier), Unwrap(res.b.qualifier)) => res.ab = -1
                 /\ StrLess(Unwrap(res.b.qualifier), Unwrap(res.a.qualifier)) => res.ab = 1

(* A version without qualifier was compared with the same numbers and a    *)
(* qualifier, and found greater.                                           *)
C24_Witness ==
    /\ res.op = "cmp"
    /\ SameNums(res.a, res.b)
    /\ ~IsSome(res.a.qualifier) /\ IsSome(res.b.qualifier)
    /\ res.ab = 1

(* C25 (version round-trip): the display form of a parsed version parses,  *)
(* to a version equal to the first; it has three numeric fields, and those *)
(* the string did not have are 0.                                          *)
C25_RoundTrip ==
    res.op = "to_string" =>
        /\ res.back.ok
        /\ VersionEq(res.back.v, res.v)
        /\ Len(res.text.nums) = 3
        /\ \A i \in 1..3 : i > Len(res.s.nums) => res.text.nums[i] = 0

(* A string of one field and a qualifier went through the round trip. *)
C25_Witness ==
    /\ res.op = "to_string"
    /\ Len(res.s.nums) = 1
    /\ IsSome(res.s.q)
    /\ res.text # res.s

(* C26 (range matching): a Range matches w exactly when w is above min, or *)
(* equal to it with min_inclusive, or there is no min, and likewise below  *)
(* max; Exact(v) matches w exactly when w == v.                            *)
C26_RangeMatching ==
    res.op = "matches" =>
        /\ res.req.kind = "Range" =>
              (res.out <=>
                 /\ \/ ~IsSome(res.req.min)
                    \/ VersionCmp(res.w, Unwrap(res.req.min)) > 0
                    \/ VersionEq(res.w, Unwrap(res.req.min)) /\ res.req.min_inclusive
                 /\ \/ ~IsSome(res.req.max)
                    \/ VersionCmp(res.w, Unwrap(res.req.max)) < 0
                    \/ VersionEq(res.w, Unwrap(res.req.max)) /\ res.req.max_inclusive)
        /\ res.req.kind = "Exact" => (res.out <=> VersionEq(res.w, res.req.v))

(* A range with an inclusive max matched the version that is its max. *)
C26_Witness ==
    /\ res.op = "matches"
    /\ res.req.kind = "Range"
    /\ IsSome(res.req.max) /\ res.req.max_inclusive
    /\ VersionEq(res.w, Unwrap(res.req.max))
    /\ res.out

(* The string has an empty field; a field that is neither empty nor a      *)
(* number.                                                                 *)
HasEmptyField(s) == \E i \in DOMAIN s.nums : s.nums[i] = EmptyField
HasNonNumber(s) == \E i \in DOMAIN s.nums : s.nums[i] < 0 /\ s.nums[i] # EmptyField

(* C28 (version parse errors): a string with more than three fields or     *)
(* with an empty field fails with InvalidFormat, one of up to three        *)
(* non-empty fields of which one is no number fails with InvalidNumber,    *)
(* and no such string parses.                                              *)
C28_ParseErrors ==
    res.op = "parse" =>
        /\ (Len(res.s.nums) > 3 \/ HasEmptyField(res.s))
              => ~res.out.ok /\ res.out.err = "InvalidFormat"
        /\ (Len(res.s.nums) <= 3 /\ ~HasEmptyField(res.s) /\ HasNonNumber(res.s))
              => ~res.out.ok /\ res.out.err = "InvalidNumber"

(* The content store_artifact was last given for the artifact, none if     *)
(* remove_artifacts was called for its version since, or no call was made. *)
MostRecent(a) == IF a \in DOMAIN recent THEN recent[a] ELSE None

(* C29 (store read-your-writes): has_artifact answers true, and            *)
(* load_artifact returns b, exactly when the last store_artifact or        *)
(* remove_artifacts call for the artifact was a store_artifact of b; a     *)
(* load_artifact of an artifact that is not there fails and leaves the     *)
(* store as it was.                                                        *)
C29_ReadYourWrites ==
    /\ res.op = "has_artifact" => (res.out <=> IsSome(MostRecent(res.a)))
    /\ res.op = "load_artifact" =>
          /\ res.out.ok <=> IsSome(MostRecent(res.a))
          /\ res.out.ok => res.out.content = Unwrap(MostRecent(res.a))
          /\ store = res.before
    /\ \A a \in Artifacts :
          /\ HasArtifact(store, a.coord, a.version, a.kind) <=> IsSome(MostRecent(a))
          /\ IsSome(MostRecent(a)) =>
                TryLoadArtifact(store, a.coord, a.version, a.kind)
                    = [ok |-> TRUE, content |-> Unwrap(MostRecent(a))]

(* load_artifact returned the content of the second of two store_artifact  *)
(* calls for one artifact, while another artifact was removed.             *)
C29_Witness ==
    /\ res.op = "load_artifact"
    /\ res.out.ok
    /\ res.out.content = << 60 >>
    /\ ops >= 3
    /\ \E a \in DOMAIN recent : recent[a] = None

(* C30 (lockfile persistence): Lockfile::read returns the lockfile that    *)
(* the last Lockfile::write call that returned was made on, and the empty  *)
(* lockfile (version 1, no deps) as long as no write call has returned.    *)
C30_LockfilePersistence ==
    LockfileRead(files.path) =
        [ok |-> TRUE, lock |-> IF res.op = "write" THEN res.lock ELSE NewLockfile]

(* A write of a lockfile with dependencies has returned, after another,    *)
(* and a further write is under way, its temporary file begun.             *)
C30_Witness ==
    /\ res.op = "write"
    /\ res.lock.deps # EmptyMap
    /\ res.lock.version = 1
    /\ ops = 3
    /\ lw # None
    /\ Unwrap(lw).lock # res.lock
    /\ IsSome(files.temp) /\ IsSome(Unwrap(files.temp).version)

(* The artifact names in str::cmp order, and the place of a name in it. *)
Alphabetical ==
    << "A", "B", "C", "D", "E", "F", "G", "H", "J", "K", "M", "N", "O", "P", "Q",
       "R", "S", "T", "U", "V", "X", "Y", "Z" >>
Rank(name) == CHOOSE i \in DOMAIN Alphabetical : Alphabetical[i] = name

(* The coordinate strings (all of namespace g, without version) are in     *)
(* ascending order, none twice.                                            *)
SortedStrings(list) ==
    \A i \in DOMAIN list : \A j \in DOMAIN list :
        i < j => Rank(list[i][2]) < Rank(list[j][2])

(* C31 (sorted dependency lists): the deps of every entry merge_graph      *)
(* inserts are the coordinate strings of the graph's edges in sorted       *)
(* order, none twice.                                                      *)
C31_SortedDeps ==
    \A k \in DOMAIN lockfile.deps : SortedStrings(lockfile.deps[k].deps)

(* The coordinates reachable from a key of remove's lockfile other than    *)
(* the removed one.                                                        *)
ReachedFromOthers ==
    { CoordinateParse(t).c :
        t \in { u \in ReachFrom(pr.lock, Keys(pr.lock) \ { CoordToString(Unwrap(pr.root)) }) :
                  CoordinateParse(u).ok } }

(* C32 (per-traversal visited set): within remove the visited set is empty *)
(* when the removed pass starts and when each retained pass starts, and    *)
(* after the passes every coordinate the removed pass marked that is       *)
(* reachable from another key is marked as retained.                       *)
C32_VisitedPerPass ==
    /\ pr.pass = "removed" => pr.pruner.visited = {}
    /\ (pr.pass = "retained" /\ pr.keys # << >>
          /\ StartsPass(Head(pr.keys), Unwrap(pr.root))) => pr.pruner.visited = {}
    /\ pr.pass = "done" =>
          \A c \in pr.pruner.marked_from_removed \cap ReachedFromOthers :
              c \in pr.pruner.marked_from_remaining

(* C33 (breadth-first serial order): resolve takes one item at a time from *)
(* the front of the queue, and no item behind it has a smaller depth; the  *)
(* first item taken is the root at depth 0; an item is added at the back,  *)
(* with the depth of the item being handled plus 1, and so is the          *)
(* requirement recorded for it.                                            *)
C33_BreadthFirst ==
    [][ (pc = "resolve" /\ pc' = "resolve") =>
          /\ (seen = {} /\ seen' # {}) =>
                /\ Head(queue).coord = run.root
                /\ Head(queue).depth = 0
          /\ Len(queue') < Len(queue) =>
                /\ queue' = Tail(queue)
                /\ \A i \in DOMAIN queue' : queue'[i].depth >= Head(queue).depth
          /\ Len(queue') > Len(queue) =>
                /\ queue' = Append(queue, queue'[Len(queue')])
                /\ queue'[Len(queue')].depth = cur.depth + 1
                /\ \A i \in DOMAIN queue : queue[i].depth <= cur.depth + 1
          /\ (deps # << >> /\ deps' = Tail(deps)) =>
                LET c == Head(deps).coordinate
                    reqs == graph'.requirements[c]
                IN  /\ reqs[Len(reqs)] = << Head(deps).version_req, cur.depth + 1 >>
                    /\ Len(reqs) = 1 + (IF c \in DOMAIN graph.requirements
                                        THEN Len(graph.requirements[c]) ELSE 0) ]_vars

(* Two items of depth 1 were taken from the queue after the root, and the  *)
(* queue holds an item of depth 2 that the second of them added, with its  *)
(* requirement.                                                            *)
C33_Witness ==
    /\ pc = "resolve"
    /\ cur.depth = 1
    /\ Cardinality(seen) = 3
    /\ \E i \in DOMAIN queue :
          /\ queue[i].depth = 2
          /\ \E j \in DOMAIN graph.requirements[queue[i].coord] :
                graph.requirements[queue[i].coord][j][2] = 2
(* The versions the registry lists for the coordinate, those that parse. *)
Offered(coord) ==
    { p.v : p \in { q \in { ParseVersion(v) : v \in SearchVersions(up, coord) } : q.ok } }

(* C34 (nearest-wins tie-break): at every selection for a coordinate the   *)
(* requirement check_version_compatibility tests is, among its             *)
(* requirements of smallest depth, the one recorded first, and the         *)
(* selected version satisfies it.                                          *)
C34_TieBreak ==
    [][ (pc = "resolve" /\ deps # << >> /\ deps' = Tail(deps)) =>
          LET c == Head(deps).coordinate
              first == Governing(graph'.requirements[c])
          IN  /\ Matches(first, graph'.resolved[c])
              /\ \A v \in Offered(c) :
                    CheckVersionCompatibility(graph', c, v) <=> Matches(first, v) ]_vars

(* A coordinate has two requirements of the same, smallest depth, and the  *)
(* version selected for it when the second was recorded satisfies the      *)
(* first and not the second.                                               *)
C34_Witness ==
    /\ pc = "resolve"
    /\ \E c \in DOMAIN graph.requirements :
          LET reqs == graph.requirements[c]
          IN  /\ Len(reqs) = 2
              /\ reqs[1][2] = reqs[2][2]
              /\ Matches(reqs[1][1], graph.resolved[c])
              /\ ~Matches(reqs[2][1], graph.resolved[c])

(***************************************************************************)
(* C35 (integrity matches the cache): the integrity merge_graph records    *)
(* for a coordinate is the digest of the bytes the store holds as that     *)
(* coordinate's binary artifact at the resolved version.                   *)
(***************************************************************************)
C35_IntegrityOfStored ==
    [][ \A coord \in todo :
          LET key == CoordToString(coord)
              version == VersionToString(graph.resolved[coord])
          IN  ( /\ pc = "merge"
                /\ todo' = todo \ {coord}
                /\ lockfile' # lockfile
                /\ key \in DOMAIN lockfile'.deps ) =>
                /\ HasArtifact(store, coord, version, "Binary")
                /\ lockfile'.deps[key].integrity =
                      Integrity(LoadArtifact(store, coord, version, "Binary")) ]_vars

(***************************************************************************)
(* C37 (lockfile entries backed by the store): whatever Add and Del        *)
(* commands ran, and wherever they were stopped, every entry of the        *)
(* lockfile on disk has its binary artifact in the store; so a Del has     *)
(* removed no artifact of a coordinate that the lockfile it wrote lists.   *)
(***************************************************************************)
C37_EntriesBacked ==
    LET on_disk == LockfileRead(files.path)
    IN  on_disk.ok =>
          \A key \in DOMAIN on_disk.lock.deps :
             CoordinateParse(key).ok =>
               HasArtifact(store, CoordinateParse(key).c, on_disk.lock.deps[key].version,
                           "Binary")

(* The (path, version) pairs whose jar st holds, and those of the          *)
(* resolutions of g.                                                       *)
StoredPairs(st) == { << f.dir, f.version >> : f \in { h \in DOMAIN st.files : h.file[3] = "jar" } }
ResolvedPairs(g) ==
    { << ToPath(c), VersionToString(g.resolved[c]) >> : c \in DOMAIN g.resolved }

(***************************************************************************)
(* C36 (no orphan versions): when resolve, started on an empty store,      *)
(* returns Ok, the coordinate and version pairs it downloaded and stored   *)
(* are those of graph.resolved: no other version was fetched.              *)
(***************************************************************************)
C36_NoOrphanVersions ==
    Resolved /\ hist[1].fresh => StoredPairs(store) = ResolvedPairs(hist[1].graph)

(***************************************************************************)
(* C38 (selection succeeds whenever possible): when a candidate for the    *)
(* next request parses and satisfies the nearest requirement of its        *)
(* coordinate, resolve selects a version for it and goes on, whatever the  *)
(* other candidates are.                                                   *)
(***************************************************************************)
C38_SelectsWhenPossible ==
    [][ (pc = "resolve" /\ deps # << >> /\ ~NoneSatisfies) =>
          /\ pc' = "resolve"
          /\ deps' = Tail(deps)
          /\ Head(deps).coordinate \in DOMAIN graph'.resolved ]_vars

(* The versions of coord that st holds an artifact of. *)
StoredVersions(st, coord) ==
    { f.version : f \in { h \in DOMAIN st.files : h.dir = ToPath(coord) } }

(***************************************************************************)
(* C39 (store isolation between coordinates): list_versions(coord) returns *)
(* exactly the versions the store holds for coord, and removing every      *)
(* version it lists removes no artifact of another coordinate, also when   *)
(* the path of coord is a prefix of the other's.                           *)
(***************************************************************************)
C39_StoreIsolation ==
    /\ res.op = "list_versions" => res.result = StoredVersions(store, res.coord)
    /\ res.op = "remove_listed" =>
          \A f \in DOMAIN res.before.files :
             f.dir # ToPath(res.coord) =>
                /\ f \in DOMAIN store.files
                /\ store.files[f] = res.before.files[f]

==========================================================================
